---------------------------- MODULE Spec2Model ----------------------------
(***************************************************************************)
(* A model of the Spirent TestCenter IQ client library                     *)
(* (src/spirenttestcenteriq.py): the schema model (IqSet, IqResultSet,     *)
(* IqDimensionSet), the query builder (IqQuery, IqSingleQuery,             *)
(* IqMultiQuery) and the result reshaping of the client                    *)
(* (convert_result_to_dict, convert_result_to_csv, deepupdate).            *)
(*                                                                         *)
(* Representation.                                                         *)
(*  - A Python str is the sequence of its tokens: "tx.s_id" is             *)
(*    <<"tx", ".", "s", "_", "id">>.  Concatenation (+) is \o, so two      *)
(*    strings are equal exactly when their token sequences are.            *)
(*  - Python's None is the reserved one-token string None.                 *)
(*  - A Python list is a sequence, a dict a function (its keys are its     *)
(*    DOMAIN); a dict whose insertion order the code relies on is kept     *)
(*    with the sequence of its keys.                                       *)
(*  - An object reference to a Set of a Database is its position in the    *)
(*    database's set_list (0: None).                                       *)
(*  - A value of a response (a cell, a dict handed to deepupdate) carries  *)
(*    its Python type: PyInt, PyStr, PyList, PySet, PyDict (the sequence   *)
(*    of its items, in insertion order).  While deepupdate runs, lists,    *)
(*    dicts and sets are objects of a heap and PyRef is a reference to     *)
(*    one, so that two names of one object see each other's writes.        *)
(***************************************************************************)
EXTENDS Integers, Sequences, FiniteSets, TLC

---------------------------------------------------------------------------
(* Bounds of the model.                                                    *)

\* the longest sub-query list of the IqMultiQuery under test
MaxSubqueries == 3
\* get_query/add_filter are not called on a filter list longer than this
MaxFilters == 3
\* the most rows of a response handed to convert_result_to_dict
MaxRows == 3
\* the most rows of a response handed to convert_result_to_csv
MaxCsvRows == 2
MaxDatabases == 2
\* the greatest length the set-list of a database is let to grow to
MaxSets == 6
\* the most dimension sets all sets of a database together are let to have
\* linked when refresh_related_set_info is called on one of them
MaxLinks == 3
\* the most columns all sets of a database together are let to list when
\* populate_columns is called on one of them
MaxColumns == 3
\* the deepest recursion of deepupdate the interpreter is taken to allow
\* (sys.getrecursionlimit(), counted in calls of deepupdate)
MaxDepth == 6
\* the most group expressions a query is given
MaxGroups == 2

---------------------------------------------------------------------------
(* Values.                                                                 *)

None == <<"<None>">>

EmptyDict == [x \in {} |-> x]

\* str.join of a list of strings
RECURSIVE Join(_, _)
Join(sep, strs) ==
    IF Len(strs) = 0 THEN <<>>
    ELSE IF Len(strs) = 1 THEN strs[1]
    ELSE strs[1] \o sep \o Join(sep, Tail(strs))

\* the concatenation of a list of lists
RECURSIVE Concat(_)
Concat(lists) ==
    IF Len(lists) = 0 THEN <<>> ELSE lists[1] \o Concat(Tail(lists))

\* x in list
InList(x, list) == \E i \in 1..Len(list) : list[i] = x

---------------------------------------------------------------------------
(* The database metadata the service returns for the database the queries  *)
(* are bound to (IqDatabase.info): two result sets that share one          *)
(* dimension set, which is declared after them.                            *)

db_id == <<"db1">>

db_info ==
    [ id |-> db_id,
      result_sets |->
        << [ name |-> <<"tx">>, facts |-> << [name |-> <<"c">>] >>,
             dimension_sets |-> << <<"s">> >> ],
           [ name |-> <<"rx">>, facts |-> << [name |-> <<"c">>] >>,
             dimension_sets |-> << <<"s">> >> ] >>,
      dimension_sets |->
        << [ name |-> <<"s">>, attributes |-> << [name |-> <<"id">>] >> ] >> ]

---------------------------------------------------------------------------
(* Schema model: IqSet, IqResultSet, IqDimensionSet.                       *)

\* IqSet.populate_columns: the column names, in declaration order
populate_columns(columns) == [i \in 1..Len(columns) |-> columns[i].name]

\* IqSet.populate_columns: self.column_info[column_name] = column, a later
\* column of the same name replacing the earlier one
populate_column_info(columns) ==
    [ column_name \in { columns[i].name : i \in 1..Len(columns) } |->
        columns[CHOOSE i \in 1..Len(columns) :
                    /\ columns[i].name = column_name
                    /\ \A j \in (i + 1)..Len(columns) :
                          columns[j].name # column_name] ]

\* IqSet.populate_columns(columns) on a set: column_info is a new dict of
\* the columns, their names are appended to the column_list there is
IqSet_populate_columns(self, columns) ==
    [ self EXCEPT !.column_info = populate_column_info(columns),
                  !.column_list = @ \o populate_columns(columns) ]

\* IqResultSet.__init__: the facts are the columns; no dimension set is
\* linked yet and primary_dimension_set is None (0).  Of set_info the
\* object keeps what refresh_related_set_info reads later: the declared
\* dimension-set names and set_info.get("primary_dimension_set", None)
IqResultSet(set_info) ==
    [ kind |-> "result", name |-> set_info.name,
      column_list |-> populate_columns(set_info.facts),
      column_info |-> populate_column_info(set_info.facts),
      dimension_set_names |-> set_info.dimension_sets,
      primary_dimension_set_name |->
          IF "primary_dimension_set" \in DOMAIN set_info
          THEN set_info.primary_dimension_set ELSE None,
      dimension_sets |-> <<>>,
      primary_dimension_set |-> 0 ]

\* IqDimensionSet.__init__: the attributes are the columns
IqDimensionSet(set_info) ==
    [ kind |-> "dimension", name |-> set_info.name,
      column_list |-> populate_columns(set_info.attributes),
      column_info |-> populate_column_info(set_info.attributes),
      dimension_set_names |-> <<>>,
      dimension_sets |-> <<>> ]

\* IqDatabase.find_set_by_name: linear scan, first match, None (0) if absent
find_set_by_name(set_list, name) ==
    IF \E i \in 1..Len(set_list) : set_list[i].name = name
    THEN CHOOSE i \in 1..Len(set_list) :
            /\ set_list[i].name = name
            /\ \A j \in 1..(i - 1) : set_list[j].name # name
    ELSE 0

\* IqResultSet.refresh_related_set_info (IqSet's does nothing): append the
\* set found for every declared dimension-set name, and set
\* primary_dimension_set to the set found for the declared primary name
\* (None, 0, when the metadata declares none or no set has that name)
refresh_related_set_info(set_list, iq_set) ==
    IF iq_set.kind = "result"
    THEN [iq_set EXCEPT
            !.dimension_sets =
                @ \o [i \in 1..Len(iq_set.dimension_set_names) |->
                        find_set_by_name(set_list, iq_set.dimension_set_names[i])],
            !.primary_dimension_set =
                find_set_by_name(set_list, iq_set.primary_dimension_set_name)]
    ELSE iq_set

\* IqDatabase.refresh_set_list on the freshly emptied lists of refresh():
\* result sets, then dimension sets, then the second pass over all of them
refresh_set_list(info) ==
    LET result_set_list ==
            [i \in 1..Len(info.result_sets) |-> IqResultSet(info.result_sets[i])]
        dimension_set_list ==
            [i \in 1..Len(info.dimension_sets) |->
                IqDimensionSet(info.dimension_sets[i])]
        set_list == result_set_list \o dimension_set_list
    IN  [i \in 1..Len(set_list) |-> refresh_related_set_info(set_list, set_list[i])]

\* the set-list of the database the queries are bound to
db_set_list == refresh_set_list(db_info)

\* IqSet.get_full_column_name / IqResultSet.get_full_column_name
get_full_column_name(iq_set, column, latest) ==
    IF iq_set.kind = "result" /\ latest
    THEN <<"(">> \o iq_set.name \o <<"$last.">> \o column \o <<")">>
    ELSE iq_set.name \o <<".">> \o column

\* IqSet.get_column_alias
get_column_alias(iq_set, column) == iq_set.name \o <<"_">> \o column

\* the projection and the alias of every column of one set, in order
OwnColumnsInfo(iq_set, latest) ==
    [i \in 1..Len(iq_set.column_list) |->
        [ projection |-> get_full_column_name(iq_set, iq_set.column_list[i], latest)
                            \o <<" AS ">> \o get_column_alias(iq_set, iq_set.column_list[i]),
          alias |-> get_column_alias(iq_set, iq_set.column_list[i]) ]]

\* IqSet.get_columns_info / IqResultSet.get_columns_info: the set's own
\* columns, then (result set) the columns of each linked dimension set in
\* the non-latest form
get_columns_info(set_list, iq_set, latest) ==
    LET own == OwnColumnsInfo(iq_set, latest)
        linked == Concat([d \in 1..Len(iq_set.dimension_sets) |->
                            OwnColumnsInfo(set_list[iq_set.dimension_sets[d]], FALSE)])
        all == own \o linked
    IN  [ projections |-> [i \in 1..Len(all) |-> all[i].projection],
          column_alias_list |-> [i \in 1..Len(all) |-> all[i].alias] ]

---------------------------------------------------------------------------
(* Schema model: IqDatabase.  A linked dimension set is the position in    *)
(* set_list of the object that find_set_by_name returned, 0 for None.      *)

\* self.set_list = self.result_set_list + self.dimension_set_list puts the
\* dimension sets already linked behind the result sets just appended: the
\* position of a linked object moves with it
Moved(iq_set, results_before, results_added) ==
    [iq_set EXCEPT
        !.dimension_sets =
            [d \in 1..Len(@) |->
                IF @[d] > results_before THEN @[d] + results_added ELSE @[d]],
        !.primary_dimension_set =
            IF @ > results_before THEN @ + results_added ELSE @]

\* the lists of the database once every set of set_list has resolved its
\* declared dimension sets
WithLinked(self, linked, results) ==
    [ self EXCEPT
        !.result_set_list = SubSeq(linked, 1, results),
        !.dimension_set_list = SubSeq(linked, results + 1, Len(linked)),
        !.set_list = linked ]

\* the second pass of refresh_set_list over set_list
LinkAll(set_list) ==
    [i \in 1..Len(set_list) |-> refresh_related_set_info(set_list, set_list[i])]

\* IqDatabase.refresh_set_list: the del loop removes nothing from the lists;
\* the new sets are appended to result_set_list and dimension_set_list,
\* set_list is rebuilt from the two, and every set of set_list resolves its
\* declared dimension sets
IqDatabase_refresh_set_list(self) ==
    LET results_before == Len(self.result_set_list)
        results_added == Len(self.info.result_sets)
        result_set_list ==
            [i \in 1..results_before |->
                Moved(self.result_set_list[i], results_before, results_added)]
            \o [i \in 1..results_added |-> IqResultSet(self.info.result_sets[i])]
        dimension_set_list ==
            self.dimension_set_list
            \o [i \in 1..Len(self.info.dimension_sets) |->
                    IqDimensionSet(self.info.dimension_sets[i])]
    IN  WithLinked(self, LinkAll(result_set_list \o dimension_set_list),
                   results_before + results_added)

\* IqDatabase.refresh: info is db_info, the answer of
\* get_db_info(summary=False), holding every key refresh reads
IqDatabase_refresh(self, info) ==
    IqDatabase_refresh_set_list(
        [ self EXCEPT
            !.info = info,
            !.id = info.id,
            !.name = info.name,
            !.first_create = info.first_created,
            !.last_updated = info.last_updated,
            !.running = IF "test.running" \in DOMAIN info.metadata
                        THEN info.metadata["test.running"] ELSE FALSE,
            !.set_list = <<>>,
            !.result_set_list = <<>>,
            !.dimension_set_list = <<>> ])

\* IqDatabase.__init__
IqDatabase_init(database_id, info) ==
    IqDatabase_refresh(
        [ type |-> "IqDatabase", db_id |-> database_id, profile_id |-> None,
          info |-> None, id |-> None, name |-> None, first_create |-> None,
          last_updated |-> None, running |-> FALSE,
          set_list |-> <<>>, result_set_list |-> <<>>,
          dimension_set_list |-> <<>> ],
        info)

---------------------------------------------------------------------------
(* Query builder: IqQuery, IqSingleQuery, IqMultiQuery.                    *)
(* A query object is a record of its fields; kind tells the class.         *)

\* IqQuery.__init__
IqQuery(kind, name) ==
    [ kind |-> kind, name |-> name, iq_set |-> 0,
      subqueries |-> <<>>, keys |-> {},
      filters |-> <<>>, groups |-> <<>>, orders |-> <<>>,
      timestamp_range |-> EmptyDict, limit |-> None, pagination |-> None ]

\* IqSingleQuery.__init__: the name defaults to the set's name
IqSingleQuery(set_list, iq_set_name, name) ==
    [ IqQuery("single", IF name = None \/ name = <<>> THEN iq_set_name ELSE name)
        EXCEPT !.iq_set = find_set_by_name(set_list, iq_set_name) ]

\* IqMultiQuery.__init__: one IqSingleQuery per set name; keys is only ever
\* tested for membership, so it is kept as a set
IqMultiQuery(set_list, iq_set_names, name, keys) ==
    [ IqQuery("multi", name)
        EXCEPT !.subqueries = [i \in 1..Len(iq_set_names) |->
                                  IqSingleQuery(set_list, iq_set_names[i], None)],
               !.keys = keys ]

\* IqSingleQuery.get_columns (the alias list refresh_columns_info stored) and
\* IqMultiQuery.get_columns (the sub-queries' columns, concatenated)
RECURSIVE get_columns(_, _)
get_columns(set_list, self) ==
    IF self.kind = "single"
    THEN get_columns_info(set_list, set_list[self.iq_set], FALSE).column_alias_list
    ELSE Concat([i \in 1..Len(self.subqueries) |->
                    get_columns(set_list, self.subqueries[i])])

\* IqQuery.get_query: the fields every built query starts from
IqQuery_get_query(self) ==
    [ alias |-> self.name, filters |-> self.filters, groups |-> self.groups,
      orders |-> self.orders, timestamp_range |-> self.timestamp_range,
      limit |-> self.limit, pagination |-> self.pagination ]

\* IqSingleQuery.get_query: the base fields and the set's projections
IqSingleQuery_get_query(set_list, self, latest) ==
    LET base == IqQuery_get_query(self)
    IN  [ alias |-> base.alias, filters |-> base.filters, groups |-> base.groups,
          orders |-> base.orders, timestamp_range |-> base.timestamp_range,
          limit |-> base.limit, pagination |-> base.pagination,
          projections |-> get_columns_info(set_list, set_list[self.iq_set],
                                           latest).projections ]

\* key_dict[column].append(full_column), creating the list when absent
KeyDictAppend(key_dict, column, full_column) ==
    [k \in DOMAIN key_dict \cup {column} |->
        IF k = column
        THEN (IF column \in DOMAIN key_dict THEN key_dict[column] ELSE <<>>)
                \o <<full_column>>
        ELSE key_dict[k]]

\* a mutant of ColumnStep: the "column not in columns" test is dropped, so
\* a column two sub-queries share is projected twice
ColumnStep_NoDedup(acc, full_column, column, seen, isKey) ==
    [ acc EXCEPT
        !.columns = Append(@, column),
        !.projections = Append(@, full_column \o <<" AS ">> \o column),
        !.key_order = IF isKey /\ column \notin DOMAIN acc.key_dict
                      THEN Append(@, column) ELSE @,
        !.key_dict = IF isKey THEN KeyDictAppend(@, column, full_column) ELSE @ ]

\* IqMultiQuery.get_query, the body of the inner loop for one column of a
\* sub-query.  acc holds columns, projections, key_dict and key_order
\* (key_dict's keys in insertion order).
ColumnStep(acc, full_column, column, seen, isKey) ==
    [ acc EXCEPT
        !.columns = IF seen THEN @ ELSE Append(@, column),
        !.projections = IF seen THEN @
                        ELSE Append(@, full_column \o <<" AS ">> \o column),
        !.key_order = IF isKey /\ column \notin DOMAIN acc.key_dict
                      THEN Append(@, column) ELSE @,
        !.key_dict = IF isKey THEN KeyDictAppend(@, column, full_column) ELSE @ ]

\* IqMultiQuery.get_query, the inner loop, over the columns of one
\* sub-query from the i-th on
RECURSIVE ColumnLoop(_, _, _, _, _)
ColumnLoop(subquery_name, sub_columns, keys, i, acc) ==
    IF i > Len(sub_columns) THEN acc
    ELSE ColumnLoop(subquery_name, sub_columns, keys, i + 1,
                    ColumnStep(acc, subquery_name \o <<".">> \o sub_columns[i],
                               sub_columns[i],
                               InList(sub_columns[i], acc.columns),
                               sub_columns[i] \in keys))

\* the join filter of a key with two references
JoinFilter(refs) == refs[1] \o <<"=">> \o refs[2]

\* IqMultiQuery.get_query, the loop over key_dict from its i-th key on:
\* one match raises "only found in one sub-query" (KeyNotJoinable), more
\* than two raise "found in more than two sub-queries" (KeyAmbiguous), two
\* append the join filter.  The filters appended before a raise stay.
RECURSIVE KeyLoop(_, _, _, _)
KeyLoop(key_order, key_dict, i, query_filters) ==
    IF i > Len(key_order)
    THEN [ raised |-> FALSE, error |-> "", filters |-> query_filters ]
    ELSE IF Len(key_dict[key_order[i]]) = 1
    THEN [ raised |-> TRUE, error |-> "KeyNotJoinable", filters |-> query_filters ]
    ELSE IF Len(key_dict[key_order[i]]) > 2
    THEN [ raised |-> TRUE, error |-> "KeyAmbiguous", filters |-> query_filters ]
    ELSE KeyLoop(key_order, key_dict, i + 1,
                 Append(query_filters, JoinFilter(key_dict[key_order[i]])))

\* The call's outcome: raised and error, the query returned (None when it
\* raised), and self, the query object after the call.
Returned(self, query) ==
    [ raised |-> FALSE, error |-> "", query |-> query, self |-> self ]

Raised(self, error) ==
    [ raised |-> TRUE, error |-> error, query |-> None, self |-> self ]

RECURSIVE IqMultiQuery_get_query(_, _, _)
RECURSIVE SubqueryLoop(_, _, _, _, _)

\* get_query of a sub-query of either class
get_query_of(set_list, self, latest) ==
    IF self.kind = "single"
    THEN Returned(self, IqSingleQuery_get_query(set_list, self, latest))
    ELSE IqMultiQuery_get_query(set_list, self, latest)

\* IqMultiQuery.get_query, the body of the outer loop for the i-th
\* sub-query, built being the outcome of its get_query (which may have
\* changed it, or raised): run the inner loop over its columns
SubqueryStep(set_list, self, latest, i, acc, built) ==
    IF built.raised
    THEN [ acc EXCEPT !.raised = TRUE, !.error = built.error,
                      !.subqueries[i] = built.self ]
    ELSE SubqueryLoop(set_list, self, latest, i + 1,
           ColumnLoop(built.self.name, get_columns(set_list, built.self),
                      self.keys, 1,
                      [ acc EXCEPT !.subqueries[i] = built.self,
                                   !.built = Append(@, built.query) ]))

\* IqMultiQuery.get_query, the outer loop, over the sub-queries from the
\* i-th on
SubqueryLoop(set_list, self, latest, i, acc) ==
    IF i > Len(self.subqueries) THEN acc
    ELSE SubqueryStep(set_list, self, latest, i, acc,
                      get_query_of(set_list, self.subqueries[i], latest))

\* IqMultiQuery.get_query after the key loop
KeyStage(self, looped, aliased, keyed) ==
    IF keyed.raised
    THEN Raised([ self EXCEPT !.subqueries = looped.subqueries,
                              !.filters = IF aliased THEN keyed.filters ELSE @ ],
                keyed.error)
    ELSE Returned([ self EXCEPT !.subqueries = looped.subqueries,
                                !.filters = IF aliased THEN keyed.filters ELSE @ ],
                  [ alias |-> self.name, filters |-> keyed.filters,
                    groups |-> self.groups, orders |-> self.orders,
                    limit |-> self.limit, pagination |-> self.pagination,
                    subqueries |-> looped.built,
                    projections |-> looped.projections ])

\* IqMultiQuery.get_query after the loop over the sub-queries.
\* query["filters"] is the object's own list self.filters unless that list
\* is empty (then a fresh list replaces it), so the join filters are
\* appended to self.filters itself whenever the object holds a user filter.
SubqueryStage(self, looped) ==
    IF looped.raised
    THEN Raised([ self EXCEPT !.subqueries = looped.subqueries ], looped.error)
    ELSE KeyStage(self, looped, self.filters # <<>>,
                  KeyLoop(looped.key_order, looped.key_dict, 1, self.filters))

\* IqMultiQuery.get_query
IqMultiQuery_get_query(set_list, self, latest) ==
    SubqueryStage(self,
        SubqueryLoop(set_list, self, latest, 1,
            [ raised |-> FALSE, error |-> "",
              subqueries |-> self.subqueries, built |-> <<>>,
              columns |-> <<>>, projections |-> <<>>,
              key_order |-> <<>>, key_dict |-> EmptyDict ]))

---------------------------------------------------------------------------
(* IqQuery: the time range.  An argument is a Python value with its type:  *)
(* None, a str, or a datetime (a record of its fields).                    *)

PyNone == [type |-> "NoneType"]
PyStr(s) == [type |-> "str", value |-> s]
PyDatetime(d) == [type |-> "datetime", value |-> d]
PyDict(d) == [type |-> "dict", value |-> d]

\* Python's truth value: None, "" and {} are false, a datetime is true
Truthy(v) ==
    \/ v.type = "datetime"
    \/ v.type = "str" /\ v.value # <<>>
    \/ v.type = "dict" /\ DOMAIN v.value # {}

\* n in decimal, zero-padded to w digits (%02d, %06d, ...)
RECURSIVE Digits(_, _)
Digits(n, w) ==
    IF w = 0 THEN <<>>
    ELSE Digits(n \div 10, w - 1)
            \o << <<"0", "1", "2", "3", "4", "5", "6", "7", "8", "9">>[(n % 10) + 1] >>

\* str(n) of an int, and %Y of a year: no padding
RECURSIVE IntStr(_)
IntStr(n) ==
    IF n < 0 THEN <<"-">> \o IntStr(-n)
    ELSE IF n < 10 THEN Digits(n, 1)
    ELSE IntStr(n \div 10) \o Digits(n % 10, 1)

\* SpirentTestCenterIQ.iso_format: strftime("%Y-%m-%dT%H:%M:%S.%fZ").  The
\* C library formats the fields: %m, %d, %H, %M and %S are two digits, %f
\* (Python's own) six, and glibc writes %Y as the year is, so a year below
\* 1000 has fewer than four digits
iso_format(timestamp) ==
    IntStr(timestamp.year) \o <<"-">> \o Digits(timestamp.month, 2) \o <<"-">>
        \o Digits(timestamp.day, 2) \o <<"T">> \o Digits(timestamp.hour, 2) \o <<":">>
        \o Digits(timestamp.minute, 2) \o <<":">> \o Digits(timestamp.second, 2)
        \o <<".">> \o Digits(timestamp.microsecond, 6) \o <<"Z">>

\* startstr / endstr: a str is taken as it is, anything else is formatted
TimestampStr(v) == IF v.type = "str" THEN v.value ELSE iso_format(v.value)

\* IqQuery.add_timestamp_range(timestamp): reset, then (if the value is
\* truthy) the caller's value itself becomes the time range, whatever keys
\* it holds
IqQuery_add_timestamp_range(self, timestamp) ==
    [ self EXCEPT !.timestamp_range =
        IF Truthy(timestamp) THEN timestamp.value ELSE EmptyDict ]

\* a mutant of IqQuery_add_timestamp_range_absolute: the range is not reset
\* first, so the "relative" key of an earlier call survives
IqQuery_add_timestamp_range_absolute_NoReset(self, start, end) ==
    IF Truthy(start) \/ Truthy(end)
    THEN [ self EXCEPT !.timestamp_range =
             [ k \in (DOMAIN @) \cup {"absolute"} |->
                 IF k = "absolute"
                 THEN [ f \in { g \in {"start", "end"} :
                                  Truthy(IF g = "start" THEN start ELSE end) } |->
                          TimestampStr(IF f = "start" THEN start ELSE end) ]
                 ELSE @[k] ] ]
    ELSE self

\* IqQuery.add_timestamp_range_absolute(start, end): reset, then (if either
\* is given) "absolute" with the fields given
IqQuery_add_timestamp_range_absolute(self, start, end) ==
    [ self EXCEPT !.timestamp_range =
        IF Truthy(start) \/ Truthy(end)
        THEN [ absolute |->
                 [ f \in { g \in {"start", "end"} :
                             Truthy(IF g = "start" THEN start ELSE end) } |->
                     TimestampStr(IF f = "start" THEN start ELSE end) ] ]
        ELSE EmptyDict ]

\* IqQuery.add_timestamp_range_relative(interval): reset, then (if given)
\* "relative" with the interval
IqQuery_add_timestamp_range_relative(self, interval) ==
    [ self EXCEPT !.timestamp_range =
        IF Truthy(interval)
        THEN [ relative |-> [ interval |-> interval.value ] ]
        ELSE EmptyDict ]

---------------------------------------------------------------------------
(* Client: execute_query.                                                  *)

\* SpirentTestCenterIQ.execute_query with an explicit db_id: the body of
\* the POST to the queries endpoint
execute_query(definition, mode, id) ==
    [ database |-> [id |-> id], mode |-> mode, definition |-> definition ]

\* the bodies the service may answer a query with
Responses ==
    { [result |-> [columns |-> << <<"s_id">> >>, rows |-> <<>>]],
      [result |-> [columns |-> << <<"s_id">> >>, rows |-> << <<1>> >>]] }

---------------------------------------------------------------------------
(* Client: convert_result_to_dict and deepupdate.                          *)
(* A response body is [result |-> [columns |-> ..., rows |-> ...]], the    *)
(* rows field being absent when the service sends none.  A cell is any     *)
(* Python value, tagged with its type.  A dict is the sequence of its      *)
(* items <<key, value>> in insertion order, the order items() visits them  *)
(* in.  A dict that holds itself stays finite: PySelf(n), held by a dict,  *)
(* stands for the dict n levels above the holder (0: the holder itself).   *)

PyInt(n) == [type |-> "int", value |-> n]
PyList(l) == [type |-> "list", value |-> l]
PySet(s) == [type |-> "set", value |-> s]
PySelf(n) == [type |-> "self", value |-> n]

\* k in d
Has(d, k) == \E i \in 1..Len(d) : d[i][1] = k

\* d[k]
Get(d, k) == d[CHOOSE i \in 1..Len(d) : d[i][1] = k][2]

\* d[k] = v: a new key goes last, a key already present keeps its place
Put(d, k, v) ==
    IF Has(d, k)
    THEN [i \in 1..Len(d) |-> IF d[i][1] = k THEN <<k, v>> ELSE d[i]]
    ELSE Append(d, <<k, v>>)

(* While the code runs, the lists, dicts and sets are objects: heap is the *)
(* sequence of the objects made so far, PyRef(a) the value that is the     *)
(* object at address a, so that one object can be held in many places and  *)
(* a change made through one of them is seen through all.  The items of a  *)
(* dict object are <<key, value>> in insertion order, those of a list are  *)
(* its values; the elements of a set are scalars.  ret is the value the    *)
(* last statement yielded; raised and error tell the exception under way.  *)
PyRef(a) == [type |-> "ref", value |-> a]

\* the interpreter before a call: no object, no row read
Started ==
    [ heap |-> <<>>, ret |-> PyNone, memo |-> <<>>, raised |-> FALSE,
      error |-> "", row_index |-> 0, rows_processed |-> 0 ]

\* raise error
Raise(m, error) == [m EXCEPT !.raised = TRUE, !.error = error]

\* a new object: [], {} or set(), or one with items
New(m, object) ==
    [m EXCEPT !.heap = Append(@, object), !.ret = PyRef(Len(m.heap) + 1)]

\* type(v)
Kind(m, v) == IF v.type = "ref" THEN m.heap[v.value].type ELSE v.type

\* a value that can be a dict key: lists, dicts and sets are unhashable
Hashable(v) == v.type \notin {"list", "dict", "set", "self", "ref"}

\* the object at a takes m.ret: a list appends it, a dict sets key k to it
Stored(m, a, k) ==
    IF m.heap[a].type = "list"
    THEN [m EXCEPT !.heap[a].value = Append(@, m.ret)]
    ELSE [m EXCEPT !.heap[a].value = Put(@, k, m.ret)]

\* the value v of a response, or of a dict handed to deepupdate, as the
\* interpreter holds it: its lists, dicts and sets are made objects; dicts
\* are the addresses of the dicts that enclose v, nearest first, and
\* PySelf(n) is the n-th of them
RECURSIVE Load(_, _, _)
RECURSIVE LoadItems(_, _, _, _, _)
Load(m, v, dicts) ==
    IF v.type = "self" THEN [m EXCEPT !.ret = PyRef(dicts[v.value + 1])]
    ELSE IF v.type = "set" THEN New(m, v)
    ELSE IF v.type = "list"
    THEN LoadItems(New(m, PyList(<<>>)), Len(m.heap) + 1, v.value, 1, dicts)
    ELSE IF v.type = "dict"
    THEN LoadItems(New(m, PyDict(<<>>)), Len(m.heap) + 1, v.value, 1,
                   <<Len(m.heap) + 1>> \o dicts)
    ELSE [m EXCEPT !.ret = v]

\* the items of v from the i-th on, loaded into the object at a
LoadItems(m, a, items, i, dicts) ==
    IF i > Len(items) THEN [m EXCEPT !.ret = PyRef(a)]
    ELSE IF m.heap[a].type = "list"
    THEN LoadItems(Stored(Load(m, items[i], dicts), a, PyNone),
                   a, items, i + 1, dicts)
    ELSE LoadItems(Stored(Load(m, items[i][2], dicts), a, items[i][1]),
                   a, items, i + 1, dicts)

\* the value v of the interpreter written out: the objects it leads to,
\* a dict that is one of the dicts enclosing it (their addresses in dicts,
\* nearest first) as PySelf
RECURSIVE Unload(_, _, _)
Unload(heap, v, dicts) ==
    IF v.type # "ref" THEN v
    ELSE IF heap[v.value].type = "set" THEN heap[v.value]
    ELSE IF heap[v.value].type = "list"
    THEN PyList([ i \in 1..Len(heap[v.value].value) |->
                    Unload(heap, heap[v.value].value[i], dicts) ])
    ELSE IF InList(v.value, dicts)
    THEN PySelf((CHOOSE n \in 1..Len(dicts) : dicts[n] = v.value) - 1)
    ELSE PyDict([ i \in 1..Len(heap[v.value].value) |->
                    << heap[v.value].value[i][1],
                       Unload(heap, heap[v.value].value[i][2],
                              <<v.value>> \o dicts) >> ])

\* a mutant of Entry: column_index is never advanced
Entry_FirstCell(columns, row) ==
    [ i \in 1..Len(columns) |-> <<PyStr(columns[i]), row[1]>> ]

\* convert_result_to_dict, the row's entry: entry[column] = row[column_index]
\* for every column in order (of equal names the last value stays)
RECURSIVE Entry(_, _)
Entry(columns, row) ==
    IF columns = <<>> THEN <<>>
    ELSE Put(Entry(SubSeq(columns, 1, Len(columns) - 1), row),
             PyStr(columns[Len(columns)]), row[Len(columns)])

\* entry = {} filled from the row: the object
NewEntry(m, columns, row) == Load(m, PyDict(Entry(columns, row)), <<>>)

\* convert_result_to_dict, the body of "for name in key_names"; current is
\* m.ret.  key_value = entry[name] raises TypeError when used as a key if it
\* is unhashable; current[key_value] is a new dict, or the entry for a name
\* equal to key_names[-1]; current becomes current[key_value].
NameStep(m, entry, name, last) ==
    IF ~Hashable(Get(m.heap[entry].value, PyStr(name)))
    THEN Raise(m, "TypeError")
    ELSE IF name = last
    THEN [ New(m, PyDict(<<>>)) EXCEPT
             !.heap[m.ret.value].value =
                 Put(@, Get(m.heap[entry].value, PyStr(name)), PyRef(entry)),
             !.ret = PyRef(entry) ]
    ELSE [ New(m, PyDict(<<>>)) EXCEPT
             !.heap[m.ret.value].value =
                 Put(@, Get(m.heap[entry].value, PyStr(name)),
                     PyRef(Len(m.heap) + 1)) ]

\* for name in key_names, from the i-th name on
RECURSIVE NameLoop(_, _, _, _)
NameLoop(m, entry, key_names, i) ==
    IF i > Len(key_names) \/ m.raised THEN m
    ELSE NameLoop(NameStep(m, entry, key_names[i], key_names[Len(key_names)]),
                  entry, key_names, i + 1)

\* the body of "for key in key_names": new_dict = current = {}, then the
\* loop over the names; ret is new_dict
KeyRound(m, entry, key_names) ==
    [ NameLoop(New(m, PyDict(<<>>)), entry, key_names, 1) EXCEPT
        !.ret = PyRef(Len(m.heap) + 1) ]

\* for key in key_names: new_dict is built afresh once per key name, each
\* time with the entry as the rounds before left it
RECURSIVE KeyRounds(_, _, _, _)
KeyRounds(m, entry, key_names, n) ==
    IF n > Len(key_names) \/ m.raised THEN m
    ELSE KeyRounds(KeyRound(m, entry, key_names), entry, key_names, n + 1)

\* convert_result_to_dict, new_dict of the entry m.ret: one dict per key
\* name up to the first name equal to key_names[-1], nested, keyed by the
\* entry's value for that name; that name's value maps to the entry.  The
\* names after it (a repeated name) write into the entry, which then holds
\* itself.
NewDict(m, key_names) == KeyRounds(m, m.ret.value, key_names, 1)

\* copy.deepcopy of the value v: the objects it leads to are made anew, an
\* object met again (memo) is copied once
RECURSIVE Copy(_, _)
RECURSIVE CopyItems(_, _, _, _)
Copy(m, v) ==
    IF v.type # "ref" THEN [m EXCEPT !.ret = v]
    ELSE IF m.memo[v.value] # 0 THEN [m EXCEPT !.ret = PyRef(m.memo[v.value])]
    ELSE IF m.heap[v.value].type = "set"
    THEN [ New(m, m.heap[v.value]) EXCEPT !.memo[v.value] = Len(m.heap) + 1 ]
    ELSE CopyItems([ New(m, [ type |-> m.heap[v.value].type, value |-> <<>> ])
                       EXCEPT !.memo[v.value] = Len(m.heap) + 1 ],
                   v.value, Len(m.heap) + 1, 1)

\* the items of the object at a from the i-th on, copied into the one at b
CopyItems(m, a, b, i) ==
    IF i > Len(m.heap[a].value) THEN [m EXCEPT !.ret = PyRef(b)]
    ELSE IF m.heap[a].type = "list"
    THEN CopyItems(Stored(Copy(m, m.heap[a].value[i]), b, PyNone), a, b, i + 1)
    ELSE CopyItems(Stored(Copy(m, m.heap[a].value[i][2]), b,
                          m.heap[a].value[i][1]), a, b, i + 1)

\* copy.deepcopy(v)
DeepCopy(m, v) == Copy([m EXCEPT !.memo = [a \in 1..Len(m.heap) |-> 0]], v)

\* v.copy() of a set
SetCopy(m, v) == New(m, m.heap[v.value])

\* k in target, for a dict or a list
Contains(m, target, k) ==
    IF m.heap[target.value].type = "dict" THEN Has(m.heap[target.value].value, k)
    ELSE InList(k, m.heap[target.value].value)

\* the position list[k] stands for, counted from the end when k is negative
Index(list, k) == IF k >= 0 THEN k + 1 ELSE Len(list) + k + 1

\* what a list raises when subscripted with k: TypeError for a k that is
\* no int, IndexError for one out of range
SubscriptError(list, k) ==
    IF k.type # "int" THEN "TypeError"
    ELSE IF Index(list, k.value) \notin 1..Len(list) THEN "IndexError"
    ELSE ""

\* target[k], for a dict that has k or a list
GetItem(m, target, k) ==
    IF m.heap[target.value].type = "dict"
    THEN [m EXCEPT !.ret = Get(m.heap[target.value].value, k)]
    ELSE IF SubscriptError(m.heap[target.value].value, k) # ""
    THEN Raise(m, SubscriptError(m.heap[target.value].value, k))
    ELSE [m EXCEPT !.ret = m.heap[target.value].value[
                                Index(m.heap[target.value].value, k.value)]]

\* target[k] = m.ret, for a dict or a list
SetItem(m, target, k) ==
    IF m.heap[target.value].type = "dict"
    THEN [m EXCEPT !.heap[target.value].value = Put(@, k, m.ret)]
    ELSE IF SubscriptError(m.heap[target.value].value, k) # ""
    THEN Raise(m, SubscriptError(m.heap[target.value].value, k))
    ELSE [m EXCEPT !.heap[target.value].value[
                        Index(m.heap[target.value].value, k.value)] = m.ret]

\* m.ret.extend(v): AttributeError when m.ret is no list
Extend(m, v) ==
    IF m.raised THEN m
    ELSE IF Kind(m, m.ret) # "list" THEN Raise(m, "AttributeError")
    ELSE [m EXCEPT !.heap[m.ret.value].value = @ \o m.heap[v.value].value]

\* the characters of a str, one after another
RECURSIVE Text(_)
Text(s) == IF s = <<>> THEN "" ELSE Head(s) \o Text(Tail(s))

\* dict.update of the dict at a with one element of an iterable: the
\* element must be a sequence of two items, key and value.  A str of two
\* characters is; a str of another length is a ValueError, a value that is
\* no sequence a TypeError.
UpdatePair(m, a, element) ==
    IF element.type # "str" THEN Raise(m, "TypeError")
    ELSE IF Len(Text(element.value)) # 2 THEN Raise(m, "ValueError")
    ELSE [m EXCEPT !.heap[a].value =
              Put(@, PyStr(<< SubSeq(Text(element.value), 1, 1) >>),
                     PyStr(<< SubSeq(Text(element.value), 2, 2) >>))]

\* dict.update(set) of the dict at a: the elements are taken in the order
\* the set yields them, which is the build's; every order is an outcome
RECURSIVE UpdatePairs(_, _, _)
UpdatePairs(m, a, elements) ==
    IF elements = {} \/ m.raised THEN {m}
    ELSE UNION { UpdatePairs(UpdatePair(m, a, element), a, elements \ {element}) :
                   element \in elements }

\* m.ret.update(v.copy()) for a set v: a set takes the elements, a dict
\* takes them as key/value pairs; AttributeError when m.ret has no update
Update(m, v) ==
    IF m.raised THEN {m}
    ELSE IF Kind(m, m.ret) = "set"
    THEN { [m EXCEPT !.heap[m.ret.value].value = @ \cup m.heap[v.value].value] }
    ELSE IF Kind(m, m.ret) = "dict"
    THEN UpdatePairs(m, m.ret.value, m.heap[v.value].value)
    ELSE { Raise(m, "AttributeError") }

RECURSIVE DeepLoop(_, _, _, _, _, _)

\* deepupdate(target, src) of the values target and src, as the depth-th
\* call of the recursion: the interpreters it can leave.  src.items() is
\* an AttributeError when src is no dict; a call deeper than the
\* interpreter allows is a RecursionError.
DeepCall(m, target, src, depth) ==
    IF m.raised THEN {m}
    ELSE IF depth > MaxDepth THEN { Raise(m, "RecursionError") }
    ELSE IF Kind(m, src) # "dict" THEN { Raise(m, "AttributeError") }
    ELSE DeepLoop(m, target, src, 1, Len(m.heap[src.value].value), depth)

\* deepupdate, the body of the loop for the item k, v.  A target that is
\* neither a dict nor a list takes no item: TypeError.  A key absent from
\* target is set to a copy of v.  For a key present: a list extends
\* target[k]; a dict is merged into target[k] by the recursive call; a set
\* updates target[k]; anything else replaces target[k].
DeepStep(m, target, k, v, depth) ==
    IF Kind(m, target) \notin {"dict", "list"} THEN { Raise(m, "TypeError") }
    ELSE IF Kind(m, v) = "list"
    THEN IF ~Contains(m, target, k)
         THEN { SetItem(c, target, k) : c \in { DeepCopy(m, v) } }
         ELSE { Extend(x, v) : x \in { GetItem(m, target, k) } }
    ELSE IF Kind(m, v) = "dict"
    THEN IF ~Contains(m, target, k)
         THEN { SetItem(c, target, k) : c \in { DeepCopy(m, v) } }
         ELSE UNION { DeepCall(x, x.ret, v, depth + 1) :
                        x \in { GetItem(m, target, k) } }
    ELSE IF Kind(m, v) = "set"
    THEN IF ~Contains(m, target, k)
         THEN { SetItem(c, target, k) : c \in { SetCopy(m, v) } }
         ELSE UNION { Update(x, v) : x \in { GetItem(m, target, k) } }
    ELSE { SetItem([m EXCEPT !.ret = v], target, k) }

\* for k, v in src.items(), from the i-th item on; n is the size of src
\* when the loop began: the iterator raises RuntimeError when src has
\* changed size since
DeepLoop(m, target, src, i, n, depth) ==
    IF m.raised THEN {m}
    ELSE IF Len(m.heap[src.value].value) # n THEN { Raise(m, "RuntimeError") }
    ELSE IF i > n THEN {m}
    ELSE UNION { DeepLoop(s, target, src, i + 1, n, depth) :
                   s \in DeepStep(m, target, m.heap[src.value].value[i][1],
                                  m.heap[src.value].value[i][2], depth) }

\* what a call leaves of the value v: the value written out, or the error
Outcome(m, v) ==
    [ raised |-> m.raised, error |-> m.error,
      value |-> IF m.raised THEN None ELSE Unload(m.heap, v, <<>>) ]

\* deepupdate(t.ret, s.ret) in the interpreter s, which t has become by
\* loading src
Outcomes(t, s) == { Outcome(m, t.ret) : m \in DeepCall(s, t.ret, s.ret, 1) }

\* deepupdate(target, src): the outcomes, each target as the call leaves it
deepupdate(target, src) ==
    UNION { Outcomes(t, Load(t, src, <<>>)) : t \in { Load(Started, target, <<>>) } }

\* a mutant of InvalidKeys: only the first key name is validated
InvalidKeys_FirstOnly(key_names, columns) ==
    IF key_names.type = "list" /\ key_names.value # <<>>
    THEN { i \in {1} : ~InList(key_names.value[i], columns) }
    ELSE {}

\* convert_result_to_dict, the validation: the positions of the key names
\* that are no column (none when key_names is None or empty)
InvalidKeys(key_names, columns) ==
    IF key_names.type = "list" /\ key_names.value # <<>>
    THEN { i \in 1..Len(key_names.value) : ~InList(key_names.value[i], columns) }
    ELSE {}

\* the row loop has begun one more row
RowBegun(m) == [m EXCEPT !.rows_processed = @ + 1]

\* convert_result_to_dict, the body of the row loop for one row; result_dict
\* is the object at address 1.  row[column_index] raises IndexError for a
\* row shorter than the columns.  With key_names, new_dict is built from
\* the entry and merged: deepupdate(result_dict, new_dict).
RowStep(m, columns, row, key_names) ==
    IF Len(row) < Len(columns) THEN { Raise(RowBegun(m), "IndexError") }
    ELSE IF key_names.type = "list" /\ key_names.value # <<>>
    THEN UNION { DeepCall(new_dict, PyRef(1), new_dict.ret, 1) :
                   new_dict \in { NewDict(NewEntry(RowBegun(m), columns, row),
                                          key_names.value) } }
    ELSE { [ entry EXCEPT
               !.heap[1].value = Put(@, PyInt(m.row_index + 1), entry.ret),
               !.row_index = @ + 1 ] :
             entry \in { NewEntry(RowBegun(m), columns, row) } }

\* convert_result_to_dict, the loop over the rows from the i-th on
RECURSIVE RowLoop(_, _, _, _, _)
RowLoop(columns, rows, key_names, i, m) ==
    IF i > Len(rows) \/ m.raised THEN {m}
    ELSE UNION { RowLoop(columns, rows, key_names, i + 1, s) :
                   s \in RowStep(m, columns, rows[i], key_names) }

\* the outcome of the call: result_dict (its items), or the error
ConvertOutcome(m) ==
    [ raised |-> m.raised, error |-> m.error,
      value |-> IF m.raised THEN None
                ELSE Unload(m.heap, PyRef(1), <<>>).value,
      rows_processed |-> m.rows_processed ]

\* SpirentTestCenterIQ.convert_result_to_dict(raw_data, key_names): the
\* outcomes of the call
convert_result_to_dict(raw_data, key_names) ==
    IF InvalidKeys(key_names, raw_data.result.columns) # {}
    THEN { [ raised |-> TRUE, error |-> "KeyError", value |-> None,
             rows_processed |-> 0 ] }
    ELSE { ConvertOutcome(m) :
             m \in RowLoop(raw_data.result.columns,
                           IF "rows" \in DOMAIN raw_data.result
                           THEN raw_data.result.rows ELSE <<>>,
                           key_names, 1, New(Started, PyDict(<<>>))) }

---------------------------------------------------------------------------
(* SpirentTestCenterIQ.convert_result_to_csv.  A text is the sequence of   *)
(* its characters; a cell is None, an int or a str.                        *)

\* the dialect of the csv.writer: delimiter=',', quotechar='"',
\* quoting=csv.QUOTE_MINIMAL, and the defaults doublequote=True and
\* lineterminator='\r\n'
delimiter == ","
quotechar == "\""
lineterminator == <<"\r", "\n">>

\* csv.writer, the text of a field: None is written as the empty string, a
\* str as it is, anything else as its str()
FieldText(cell) ==
    IF cell.type = "NoneType" THEN <<>>
    ELSE IF cell.type = "int" THEN IntStr(cell.value)
    ELSE cell.value

\* QUOTE_MINIMAL: a field is quoted when it holds the delimiter, the
\* quotechar or a character of the lineterminator
NeedsQuotes(text) ==
    \E i \in 1..Len(text) :
        text[i] \in {delimiter, quotechar} \cup { lineterminator[j] : j \in 1..Len(lineterminator) }

\* doublequote: every quotechar of the field is written twice
RECURSIVE DoubleQuotes(_)
DoubleQuotes(text) ==
    IF text = <<>> THEN <<>>
    ELSE (IF Head(text) = quotechar THEN <<quotechar, quotechar>> ELSE <<Head(text)>>)
            \o DoubleQuotes(Tail(text))

\* csv.writer, a field as written
Field(text) ==
    IF NeedsQuotes(text)
    THEN <<quotechar>> \o DoubleQuotes(text) \o <<quotechar>>
    ELSE text

\* csv.writer.writerow(row), what it hands to the file's write: the fields
\* joined by the delimiter, then the lineterminator.  A row of one empty
\* field is written as a pair of quotes.
writerow(row) ==
    ( IF Len(row) = 1 /\ FieldText(row[1]) = <<>>
      THEN <<quotechar, quotechar>>
      ELSE Join(<<delimiter>>, [ i \in 1..Len(row) |-> Field(FieldText(row[i])) ]) )
        \o lineterminator

\* write() of a file opened with open(filename, mode='w'): no newline
\* argument, so every "\n" written becomes os.linesep
RECURSIVE TextWrite(_, _)
TextWrite(text, linesep) ==
    IF text = <<>> THEN <<>>
    ELSE (IF Head(text) = "\n" THEN linesep ELSE <<Head(text)>>)
            \o TextWrite(Tail(text), linesep)

\* convert_result_to_csv(raw_data, filename): the text of the file written
\* on a platform with the given os.linesep: the columns, then every row of
\* rows when rows is present and not empty
convert_result_to_csv(raw_data, linesep) ==
    TextWrite(
        writerow([ i \in 1..Len(raw_data.result.columns) |->
                     PyStr(raw_data.result.columns[i]) ])
          \o ( IF "rows" \in DOMAIN raw_data.result /\ raw_data.result.rows # <<>>
               THEN Concat([ i \in 1..Len(raw_data.result.rows) |->
                               writerow(raw_data.result.rows[i]) ])
               ELSE <<>> ),
        linesep)

---------------------------------------------------------------------------
(* Client: the transport, the database list and the current database.      *)
(* An HTTP response is [status_code, content, body]; content tells what    *)
(* the body is: a JSON list ("list"), a JSON object ("dict") or no JSON    *)
(* at all ("text").  A client is [spirent_iq_rest_api_url, stc,            *)
(* query_definitions, db_list, current_db].                                *)

\* requests.Response.raise_for_status raises HTTPError for 4xx and 5xx
raise_for_status(response) == response.status_code \in 400..599

\* SpirentTestCenterIQ.__extract_json: response.json(), which raises a
\* ValueError (JSONDecodeError) when the body is no JSON
__extract_json(response) ==
    IF response.content # "text"
    THEN [ raised |-> FALSE, error |-> "", message |-> None, value |-> response.body ]
    ELSE [ raised |-> TRUE, error |-> "JSONDecodeError", message |-> None, value |-> None ]

\* __execute, lines 589-593, entered when raise_for_status raised: what the
\* inner try raises: the error of __extract_json, a KeyError when the body
\* has no 'message', RuntimeError(responsedata['message']) otherwise
InnerTry(response) ==
    IF __extract_json(response).raised THEN __extract_json(response)
    ELSE IF "message" \notin DOMAIN response.body
    THEN [ raised |-> TRUE, error |-> "KeyError", message |-> None, value |-> None ]
    ELSE [ raised |-> TRUE, error |-> "RuntimeError",
           message |-> response.body.message, value |-> None ]

\* __execute, lines 594-595: the bare "except: pass" around the inner try
\* catches whatever it raised, the RuntimeError included
CaughtByExceptPass(exception) == TRUE

\* SpirentTestCenterIQ.__execute once the response is in: the outcome of
\* the call
__execute(response) ==
    IF raise_for_status(response) /\ ~CaughtByExceptPass(InnerTry(response))
    THEN InnerTry(response)
    ELSE __extract_json(response)

\* the requests __execute sends: requests.get(url), requests.post(url, json)
HttpGet(self, url) ==
    [ method |-> "get", url |-> self.spirent_iq_rest_api_url \o <<"/">> \o url ]
HttpPost(self, url, payload) ==
    [ method |-> "post", url |-> self.spirent_iq_rest_api_url \o <<"/">> \o url,
      json |-> payload ]

\* SpirentTestCenterIQ.get_session_db_id: the ResultDbId of the STC API
\* session, None when self.stc is None (the failing self.stc.get is caught)
get_session_db_id(self) ==
    IF self.stc.type = "NoneType" THEN None ELSE self.stc.ResultDbId

\* execute_query, lines 180-183: the database id of the request
QueryDbId(self, database_id) == IF database_id = None THEN get_session_db_id(self) ELSE database_id

\* SpirentTestCenterIQ.execute_query(query, mode, database_id): the request it
\* sends
execute_query_request(self, definition, mode, database_id) ==
    HttpPost(self, <<"queries">>, execute_query(definition, mode, QueryDbId(self, database_id)))

\* a mutant of execute_view_query: the database_id argument is not passed on
execute_view_query_SessionOnly(self, view_name, database_id, response) ==
    IF view_name \in DOMAIN self.query_definitions
    THEN [ requests |-> << execute_query_request(self, self.query_definitions[view_name],
                                                 <<"once">>, None) >>,
           outcome |-> __execute(response) ]
    ELSE [ requests |-> <<>>,
           outcome |-> [ raised |-> FALSE, error |-> "", message |-> None,
                         value |-> None ] ]

\* SpirentTestCenterIQ.execute_view_query(view_name, database_id): the requests
\* it sends and its outcome, given the response to the request
execute_view_query(self, view_name, database_id, response) ==
    IF view_name \in DOMAIN self.query_definitions
    THEN [ requests |-> << execute_query_request(self, self.query_definitions[view_name],
                                                 <<"once">>,
                                                 QueryDbId(self, database_id)) >>,
           outcome |-> __execute(response) ]
    ELSE [ requests |-> <<>>,
           outcome |-> [ raised |-> FALSE, error |-> "", message |-> None,
                         value |-> None ] ]

\* SpirentTestCenterIQ.get_all_db_info(summary): the request
get_all_db_info_request(self, summary) ==
    HttpGet(self, IF summary THEN <<"databases?detail=summary">> ELSE <<"databases">>)

\* get_db_info, lines 455-456: a db_id that is None or "" is replaced by
\* the id of the session
SessionOr(self, database_id) ==
    IF database_id = None \/ database_id = <<>> THEN get_session_db_id(self)
    ELSE database_id

\* get_db_info, lines 458-461: the request it sends; none when neither the
\* db_id nor the session gives an id
get_db_info_requests(self, database_id, summary) ==
    IF SessionOr(self, database_id) = None THEN <<>>
    ELSE << HttpGet(self, <<"databases/">> \o SessionOr(self, database_id)
                            \o (IF summary THEN <<"?detail=summary">> ELSE <<>>)) >>

\* SpirentTestCenterIQ.get_db_info(database_id, summary): the requests it sends
\* and its outcome.  Without a database_id and without a session id the url
\* cannot be built ("databases/" + None is a TypeError).
get_db_info(self, database_id, summary, response) ==
    IF get_db_info_requests(self, database_id, summary) = <<>>
    THEN [ requests |-> <<>>,
           outcome |-> [ raised |-> TRUE, error |-> "TypeError", message |-> None,
                         value |-> None ] ]
    ELSE [ requests |-> get_db_info_requests(self, database_id, summary),
           outcome |-> __execute(response) ]

\* the keys of its info that IqDatabase.refresh (lines 654-658) and
\* refresh_set_list (lines 671, 675) index
RefreshKeys ==
    { "id", "name", "first_created", "last_updated", "metadata", "result_sets",
      "dimension_sets" }

\* IqDatabase(iq, database_id) as the client calls it, given the response to
\* the get_db_info(db_id, summary=False) of its refresh: the object, or what
\* the constructor raised.  __execute returns the body of an error answer
\* as if it were the info, and indexing it fails: a JSON object without one
\* of the keys is a KeyError, a JSON array a TypeError.
IqDatabase(database_id, response) ==
    IF __execute(response).raised THEN __execute(response)
    ELSE IF response.content = "list"
    THEN [ raised |-> TRUE, error |-> "TypeError", message |-> None, value |-> None ]
    ELSE IF ~(RefreshKeys \subseteq DOMAIN response.body)
    THEN [ raised |-> TRUE, error |-> "KeyError", message |-> None, value |-> None ]
    ELSE [ raised |-> FALSE, error |-> "", message |-> None,
           value |-> IqDatabase_init(database_id, response.body) ]

\* refresh_database_list, line 236: the database was produced by TestCenter
IsTestCenter(info) ==
    /\ "application.name" \in DOMAIN info.metadata
    /\ info.metadata["application.name"] = <<"TestCenter">>

\* a mutant of refresh_database_list: db_list is not emptied first
refresh_database_list_Merge(self) ==
    [ self |-> self, pc |-> "get_all_db_info", all_db_info |-> <<>>, i |-> 0,
      requests |-> << get_all_db_info_request(self, TRUE) >>,
      outcome |-> [ raised |-> FALSE, error |-> "", message |-> None, value |-> None ] ]

\* SpirentTestCenterIQ.refresh_database_list up to its first wait for the
\* service (lines 228-233): db_list is emptied and get_all_db_info(summary=
\* True) has sent its request.  The call is the client as it stands (self),
\* where the call waits (pc), the list it iterates and the position in it
\* (all_db_info, i), the requests sent so far and, once pc is "done", what
\* the call returned or raised.
refresh_database_list(self) ==
    [ self |-> [self EXCEPT !.db_list = <<>>], pc |-> "get_all_db_info",
      all_db_info |-> <<>>, i |-> 0,
      requests |-> << get_all_db_info_request(self, TRUE) >>,
      outcome |-> [ raised |-> FALSE, error |-> "", message |-> None, value |-> None ] ]

\* refresh_database_list, lines 235-237, from the i-th entry on: an entry
\* that is not TestCenter's is passed over; at the first that is,
\* IqDatabase(self, db_info["id"]) calls get_db_info(db_id, summary=False)
\* in its refresh (line 650), which sends its request and waits, or, for
\* an id of None or "" and no session, raises before any request and ends
\* the call; with no entry left the call returns
RECURSIVE DatabaseLoop(_, _)
DatabaseLoop(call, i) ==
    IF i > Len(call.all_db_info) THEN [call EXCEPT !.pc = "done", !.i = i]
    ELSE IF IsTestCenter(call.all_db_info[i])
    THEN IF get_db_info_requests(call.self, call.all_db_info[i].id, FALSE) = <<>>
         THEN [call EXCEPT !.pc = "done", !.i = i,
                           !.outcome = [ raised |-> TRUE, error |-> "TypeError",
                                         message |-> None, value |-> None ]]
         ELSE [call EXCEPT !.pc = "IqDatabase", !.i = i,
                           !.requests = @ \o get_db_info_requests(call.self,
                                                 call.all_db_info[i].id, FALSE)]
    ELSE DatabaseLoop(call, i + 1)

\* refresh_database_list when get_all_db_info returns (line 233): an
\* exception of __execute ends the call.  A JSON object in place of the
\* list (an error body) is iterated by its keys, and indexing a key with
\* "metadata" is a TypeError; an empty object is iterated like an empty
\* list.
refresh_database_list_get_all_db_info(call, response) ==
    IF __execute(response).raised
    THEN [call EXCEPT !.pc = "done", !.outcome = __execute(response)]
    ELSE IF response.content = "dict"
    THEN [call EXCEPT !.pc = "done",
                      !.outcome = IF DOMAIN response.body = {} THEN @
                                  ELSE [ raised |-> TRUE, error |-> "TypeError",
                                         message |-> None, value |-> None ]]
    ELSE DatabaseLoop([call EXCEPT !.all_db_info = response.body], 1)

\* refresh_database_list when the IqDatabase of the i-th entry is answered
\* (lines 237-238): an exception of the constructor ends the call with the
\* databases appended so far; else the database is appended and the loop
\* goes on
refresh_database_list_IqDatabase(call, response) ==
    IF IqDatabase(call.all_db_info[call.i].id, response).raised
    THEN [call EXCEPT !.pc = "done",
                      !.outcome = IqDatabase(call.all_db_info[call.i].id, response)]
    ELSE DatabaseLoop(
            [call EXCEPT !.self.db_list =
                Append(@, IqDatabase(call.all_db_info[call.i].id, response).value)],
            call.i + 1)

\* refresh_database_list answered with the responses, one after another,
\* until it returns or raises: the call when it is done, db_list and the
\* requests sent included
RECURSIVE refresh_database_list_answered(_, _)
refresh_database_list_answered(call, responses) ==
    IF call.pc = "done" \/ responses = <<>> THEN call
    ELSE refresh_database_list_answered(
            IF call.pc = "get_all_db_info"
            THEN refresh_database_list_get_all_db_info(call, Head(responses))
            ELSE refresh_database_list_IqDatabase(call, Head(responses)),
            Tail(responses))

\* SpirentTestCenterIQ.find_db_by_id: the first database with that id; no
\* database for an id of None or ""
find_db_by_id(db_list, id) ==
    IF id # None /\ id # <<>> /\ \E i \in 1..Len(db_list) : db_list[i].id = id
    THEN db_list[CHOOSE i \in 1..Len(db_list) :
                    /\ db_list[i].id = id
                    /\ \A j \in 1..(i - 1) : db_list[j].id # id]
    ELSE PyNone

\* the value of a decimal digit
DigitValue(c) == CHOOSE n \in 0..9 : Digits(n, 1) = <<c>>

\* dateutil.parser.parse of an ISO 8601 timestamp of December 2019,
\* <<"2019-12-", d, d, "T", h, h, ":00:00", "Z">> or with "+", o, o, ":00"
\* in place of "Z": the instant, in hours since the month began (UTC)
dateutil_parse(timestamp) ==
    (10 * DigitValue(timestamp[2]) + DigitValue(timestamp[3])) * 24
        + (10 * DigitValue(timestamp[5]) + DigitValue(timestamp[6]))
        - (IF timestamp[8] = "Z" THEN 0
           ELSE 10 * DigitValue(timestamp[9]) + DigitValue(timestamp[10]))

\* a mutant of FindStep: the first match is kept whatever its timestamp
FindStep_FirstMatch(acc, database, name) ==
    IF database.name = name /\ acc.current_db.type = "NoneType"
    THEN [ current_db |-> database, db_timestamp |-> dateutil_parse(database.last_updated) ]
    ELSE acc

\* a mutant of FindStep: an equal timestamp replaces the match too
FindStep_OrEqual(acc, database, name) ==
    IF database.name = name
       /\ (acc.current_db.type = "NoneType"
           \/ acc.db_timestamp <= dateutil_parse(database.last_updated))
    THEN [ current_db |-> database, db_timestamp |-> dateutil_parse(database.last_updated) ]
    ELSE acc

\* find_db_by_name, the body of the loop (lines 343-352): a match replaces
\* the one held when none is held or when its timestamp is later
FindStep(acc, database, name) ==
    IF database.name = name
       /\ (acc.current_db.type = "NoneType"
           \/ acc.db_timestamp < dateutil_parse(database.last_updated))
    THEN [ current_db |-> database, db_timestamp |-> dateutil_parse(database.last_updated) ]
    ELSE acc

\* find_db_by_name, the loop over db_list from the i-th database on
RECURSIVE FindLoop(_, _, _, _)
FindLoop(db_list, name, i, acc) ==
    IF i > Len(db_list) THEN acc
    ELSE FindLoop(db_list, name, i + 1, FindStep(acc, db_list[i], name))

\* SpirentTestCenterIQ.find_db_by_name(name)
find_db_by_name(db_list, name) ==
    FindLoop(db_list, name, 1, [ current_db |-> PyNone, db_timestamp |-> 0 ]).current_db

\* SpirentTestCenterIQ.set_current_db(name, database_id): the client afterwards;
\* the new current_db is what it returns
set_current_db(self, name, database_id) ==
    [ self EXCEPT !.current_db =
        IF database_id = None /\ name = None
        THEN find_db_by_id(self.db_list, get_session_db_id(self))
        ELSE IF database_id # None /\ database_id # <<>> THEN find_db_by_id(self.db_list, database_id)
        ELSE IF name # None /\ name # <<>> THEN find_db_by_name(self.db_list, name)
        ELSE PyNone ]

---------------------------------------------------------------------------
(* State.                                                                  *)

VARIABLES
    query,        \* the query object under test (an IqMultiQuery)
    last_call,    \* the last method called, with its arguments
    result,       \* what that call returned or raised
    request,      \* the body that call POSTed to the service (None: none)
    result_file,  \* the text of the file that call wrote (None: none)
    iq,           \* the client object under test (a SpirentTestCenterIQ)
    db            \* the database object under test (an IqDatabase)

vars == <<query, last_call, result, request, result_file, iq, db>>

NoCall == [op |-> "__init__"]
NoResult == [raised |-> FALSE, error |-> "", value |-> None]

\* the set names an IqMultiQuery is constructed over
SetNames == { <<"tx">>, <<"rx">> }

\* the key columns it may declare
KeyColumns == { <<"s", "_", "id">>, <<"tx", "_", "c">> }

\* the lists of at most n set names
SetNameLists(n) == UNION { [1..k -> SetNames] : k \in 0..n }

\* the query objects add_subqueries may be handed: a named single query
\* over tx, or a named multi-query correlating tx and rx on the column they
\* share.  (An IqSingleQuery over a dimension set cannot be constructed:
\* its refresh_columns_info passes latest to IqSet.get_columns_info, which
\* takes no such argument, and raises TypeError.)
AddableQueries ==
    { IqSingleQuery(db_set_list, <<"tx">>, <<"t">>),
      IqMultiQuery(db_set_list, << <<"tx">>, <<"rx">> >>, <<"M">>,
                   { <<"s", "_", "id">> }) }

\* the filter expressions a caller adds
UserFilters == { <<"f">> }

---------------------------------------------------------------------------
(* The query builder's operations on the IqMultiQuery under test.          *)

InitQuery ==
    /\ \E iq_set_names \in SetNameLists(MaxSubqueries - 1), keys \in SUBSET KeyColumns :
          query = IqMultiQuery(db_set_list, iq_set_names, None, keys)
    /\ last_call = NoCall
    /\ result = NoResult
    /\ request = None
    /\ result_file = None
    /\ iq = None
    /\ db = None

\* IqMultiQuery.add_subqueries(queries), queries a list of one query
add_subqueries ==
    /\ Len(query.subqueries) < MaxSubqueries
    /\ \E q \in AddableQueries :
          /\ query' = [query EXCEPT !.subqueries = @ \o <<q>>]
          /\ last_call' = [op |-> "add_subqueries", queries |-> <<q>>]
    /\ result' = NoResult
    /\ request' = None
    /\ UNCHANGED <<result_file, iq, db>>

\* IqQuery.add_filter(filter)
add_filter ==
    /\ Len(query.filters) < MaxFilters
    /\ \E filter \in UserFilters :
          /\ query' = [query EXCEPT !.filters = Append(@, filter)]
          /\ last_call' = [op |-> "add_filter", filter |-> filter]
    /\ result' = NoResult
    /\ request' = None
    /\ UNCHANGED <<result_file, iq, db>>

\* IqQuery.delete_filters()
delete_filters ==
    /\ query' = [query EXCEPT !.filters = <<>>]
    /\ last_call' = [op |-> "delete_filters"]
    /\ result' = NoResult
    /\ request' = None
    /\ UNCHANGED <<result_file, iq, db>>

\* IqMultiQuery.get_query(latest)
get_query ==
    /\ Len(query.filters) <= MaxFilters
    /\ \E latest \in BOOLEAN :
          \E r \in {IqMultiQuery_get_query(db_set_list, query, latest)} :
              /\ query' = r.self
              /\ last_call' = [op |-> "get_query", latest |-> latest]
              /\ result' = [raised |-> r.raised, error |-> r.error, value |-> r.query]
    /\ request' = None
    /\ UNCHANGED <<result_file, iq, db>>

\* the arguments of execute: latest is read only when no custom_query is given
ExecuteArgs ==
    { [latest |-> FALSE, custom_query |-> None],
      [latest |-> TRUE, custom_query |-> None],
      [latest |-> FALSE, custom_query |-> <<"custom">>] }

\* IqMultiQuery.execute(latest, custom_query): the built query (or the
\* caller's) is wrapped as multi_result and POSTed for the bound database;
\* the service's body is returned
execute ==
    /\ Len(query.filters) <= MaxFilters
    /\ \E args \in ExecuteArgs :
          \E r \in {IF args.custom_query = None
                      THEN IqMultiQuery_get_query(db_set_list, query, args.latest)
                      ELSE Returned(query, args.custom_query)} :
              /\ query' = r.self
              /\ last_call' = [op |-> "execute", latest |-> args.latest,
                               custom_query |-> args.custom_query]
              /\ IF r.raised
                 THEN /\ result' = [raised |-> TRUE, error |-> r.error, value |-> None]
                      /\ request' = None
                 ELSE /\ request' = execute_query([multi_result |-> r.query],
                                                  <<"once">>, db_info.id)
                      /\ \E response \in Responses :
                            result' = [raised |-> FALSE, error |-> "",
                                       value |-> response]
    /\ UNCHANGED <<result_file, iq, db>>

NextQuery ==
    \/ add_subqueries
    \/ add_filter
    \/ delete_filters
    \/ get_query
    \/ execute

Spec == InitQuery /\ [][NextQuery]_vars

---------------------------------------------------------------------------
(* Claims about IqMultiQuery.get_query.                                    *)

\* the last call built a query: get_query, or execute without custom_query
BuildCall ==
    \/ last_call.op = "get_query"
    \/ last_call.op = "execute" /\ last_call.custom_query = None

\* it returned the query
Built == BuildCall /\ ~result.raised

\* the query it built
BuiltQuery ==
    IF last_call.op = "get_query" THEN result.value
    ELSE request.definition.multi_result

\* the positions of the sub-queries whose column list holds column k
Defining(k) ==
    { i \in 1..Len(query.subqueries) :
        InList(k, get_columns(db_set_list, query.subqueries[i])) }

\* the join filters of key k between two different sub-queries defining it
JoinsOf(k) ==
    { query.subqueries[a].name \o <<".">> \o k \o <<"=">>
        \o query.subqueries[b].name \o <<".">> \o k :
        <<a, b>> \in { p \in Defining(k) \X Defining(k) : p[1] # p[2] } }

\* how many entries of list are in set S
Count(list, S) == Cardinality({ i \in 1..Len(list) : list[i] \in S })

\* the projections of the built query that carry alias k
ProjectionsOf(k) ==
    { i \in 1..Len(BuiltQuery.projections) :
        /\ Len(BuiltQuery.projections[i]) > Len(k) + 1
        /\ SubSeq(BuiltQuery.projections[i],
                  Len(BuiltQuery.projections[i]) - Len(k),
                  Len(BuiltQuery.projections[i])) = <<" AS ">> \o k }

\* C1 (as claimed): when every declared key column is defined by exactly
\* two sub-queries, get_query returns a query whose filter list holds
\* exactly one join filter per key, between those two sub-queries, and
\* whose projections hold exactly one projection with the key's alias.
C1_OneJoinFilterPerKey ==
    (BuildCall /\ query.keys # {} /\ \A k \in query.keys : Cardinality(Defining(k)) = 2)
        => /\ ~result.raised
           /\ \A k \in query.keys :
                /\ Count(BuiltQuery.filters, JoinsOf(k)) = 1
                /\ Cardinality(ProjectionsOf(k)) = 1

\* C2 (as claimed): get_query raises, returning no query, when a declared
\* key column is defined by exactly one sub-query (KeyNotJoinable) or by
\* three or more (KeyAmbiguous).
C2_RaisesOnOneOrManyDefinitions ==
    BuildCall =>
        /\ (\E k \in query.keys : Cardinality(Defining(k)) = 1 \/ Cardinality(Defining(k)) >= 3)
              => result.raised /\ result.value = None
        /\ ( /\ \E k \in query.keys : Cardinality(Defining(k)) = 1
             /\ \A k \in query.keys : Cardinality(Defining(k)) \in {1, 2} )
              => result.error = "KeyNotJoinable"
        /\ ( /\ \E k \in query.keys : Cardinality(Defining(k)) >= 3
             /\ \A k \in query.keys : Cardinality(Defining(k)) >= 2 )
              => result.error = "KeyAmbiguous"

\* C3 (as claimed): get_query succeeds only if every declared key column is
\* defined by exactly two sub-queries; a key no sub-query defines raises too.
C3_SucceedsOnlyWithTwoDefinitions ==
    Built => \A k \in query.keys : Cardinality(Defining(k)) = 2

\* C4 (as claimed): building or executing a query leaves the query object's
\* filter list as it was, and a build that follows a build with the same
\* latest flag returns the same query.
C4_BuildLeavesQueryUnchanged ==
    [][ (last_call'.op \in {"get_query", "execute"})
            => /\ query'.filters = query.filters
               /\ (last_call.op = "get_query" /\ last_call' = last_call)
                     => result' = result ]_vars

\* the indices of the first occurrences in list, in increasing order
RECURSIVE FirstSeen(_, _)
FirstSeen(list, i) ==
    IF i > Len(list) THEN <<>>
    ELSE (IF \E j \in 1..(i - 1) : list[j] = list[i] THEN <<>> ELSE <<i>>)
            \o FirstSeen(list, i + 1)

\* every column alias of the sub-queries, with the sub-query it comes from,
\* in the sub-queries' order
SubqueryColumns ==
    Concat([i \in 1..Len(query.subqueries) |->
              LET cols == get_columns(db_set_list, query.subqueries[i])
              IN  [c \in 1..Len(cols) |->
                      [subquery |-> query.subqueries[i].name, column |-> cols[c]]]])

\* C5: the projections of a built query are the distinct column aliases of
\* the sub-queries, once each, in first-seen order, each as
\* "<first defining sub-query>.<column> AS <column>".
C5_ProjectionsFirstSeenOrder ==
    Built =>
        LET all == SubqueryColumns
            first == FirstSeen([i \in 1..Len(all) |-> all[i].column], 1)
        IN  /\ Len(BuiltQuery.projections) = Len(first)
            /\ \A n \in 1..Len(first) :
                  BuiltQuery.projections[n] =
                      all[first[n]].subquery \o <<".">> \o all[first[n]].column
                          \o <<" AS ">> \o all[first[n]].column

\* C5's case: a query was built over sub-queries that repeat a column alias
C5_Witness ==
    /\ Built
    /\ Len(BuiltQuery.projections) >= 3
    /\ Len(SubqueryColumns) > Len(BuiltQuery.projections)

---------------------------------------------------------------------------
(* The time range of a query: add_timestamp_range_absolute and             *)
(* add_timestamp_range_relative called in any order on one query.          *)

\* the datetime values a caller passes
Datetimes ==
    { [ year |-> y, month |-> 12, day |-> 5, hour |-> 23, minute |-> 0,
        second |-> 9, microsecond |-> u ] :
        y \in {987, 2019}, u \in {0, 123456} }

\* the start and end arguments: omitted, empty, a formatted timestamp, a datetime
TimestampArgs ==
    { PyNone, PyStr(<<>>), PyStr(<<"2019-01-05T00:00:00.000000Z">>) }
        \cup { PyDatetime(d) : d \in Datetimes }

\* the interval arguments: omitted, empty, ISO-8601 durations
IntervalArgs == { PyNone, PyStr(<<>>), PyStr(<<"PT1M">>), PyStr(<<"PT1H">>) }

\* the time ranges a caller hands to add_timestamp_range: omitted, empty,
\* one form, or both forms in one dict
RangeArgs ==
    { PyNone, PyDict(EmptyDict),
      PyDict([absolute |-> [start |-> <<"2019-01-05T00:00:00.000000Z">>]]),
      PyDict([relative |-> [interval |-> <<"PT1M">>]]),
      PyDict([absolute |-> [end |-> <<"2019-01-05T00:00:00.000000Z">>],
              relative |-> [interval |-> <<"PT1H">>]]) }

InitTime ==
    /\ query \in { IqSingleQuery(db_set_list, <<"tx">>, None),
                   IqMultiQuery(db_set_list, << <<"tx">>, <<"rx">> >>, None,
                                { <<"s", "_", "id">> }) }
    /\ last_call = NoCall
    /\ result = NoResult
    /\ request = None
    /\ result_file = None
    /\ iq = None
    /\ db = None

\* IqQuery.add_timestamp_range_absolute(start, end); before is the time
\* range the query held when it was called
add_timestamp_range_absolute ==
    /\ \E start \in TimestampArgs, end \in TimestampArgs :
          /\ query' = IqQuery_add_timestamp_range_absolute(query, start, end)
          /\ last_call' = [ op |-> "add_timestamp_range_absolute",
                            start |-> start, end |-> end,
                            before |-> query.timestamp_range ]
    /\ result' = NoResult
    /\ request' = None
    /\ UNCHANGED <<result_file, iq, db>>

\* IqQuery.add_timestamp_range_relative(interval)
add_timestamp_range_relative ==
    /\ \E interval \in IntervalArgs :
          /\ query' = IqQuery_add_timestamp_range_relative(query, interval)
          /\ last_call' = [ op |-> "add_timestamp_range_relative",
                            interval |-> interval,
                            before |-> query.timestamp_range ]
    /\ result' = NoResult
    /\ request' = None
    /\ UNCHANGED <<result_file, iq, db>>

\* IqQuery.add_timestamp_range(timestamp)
add_timestamp_range ==
    /\ \E timestamp \in RangeArgs :
          /\ query' = IqQuery_add_timestamp_range(query, timestamp)
          /\ last_call' = [ op |-> "add_timestamp_range",
                            timestamp |-> timestamp,
                            before |-> query.timestamp_range ]
    /\ result' = NoResult
    /\ request' = None
    /\ UNCHANGED <<result_file, iq, db>>

NextTime ==
    \/ add_timestamp_range
    \/ add_timestamp_range_absolute
    \/ add_timestamp_range_relative

SpecTime == InitTime /\ [][NextTime]_vars

\* the fields of {start, end} the last call supplied a value for
Supplied ==
    { f \in {"start", "end"} : last_call[f] # PyNone /\ last_call[f] # PyStr(<<>>) }

\* C6: after add_timestamp_range_absolute or add_timestamp_range_relative,
\* whatever range the query held before (one set by add_timestamp_range
\* with both keys included), the time range holds at most one of "absolute"
\* and "relative" and is what the last call alone makes it: "absolute" with
\* exactly the start/end fields that call supplied, "relative" with its
\* interval, or empty when the call supplied no value.
C6_TimeRangeLastCallWins ==
    /\ last_call.op \in {"add_timestamp_range_absolute",
                         "add_timestamp_range_relative"} =>
          /\ Cardinality(DOMAIN query.timestamp_range) <= 1
          /\ DOMAIN query.timestamp_range \subseteq {"absolute", "relative"}
    /\ last_call.op = "add_timestamp_range_absolute" =>
          IF Supplied = {}
          THEN query.timestamp_range = EmptyDict
          ELSE /\ DOMAIN query.timestamp_range = {"absolute"}
               /\ DOMAIN query.timestamp_range.absolute = Supplied
               /\ \A f \in Supplied :
                     query.timestamp_range.absolute[f] =
                        IF last_call[f].type = "str" THEN last_call[f].value
                        ELSE iso_format(last_call[f].value)
    /\ last_call.op = "add_timestamp_range_relative" =>
          IF last_call.interval \in {PyNone, PyStr(<<>>)}
          THEN query.timestamp_range = EmptyDict
          ELSE query.timestamp_range = [relative |-> [interval |-> last_call.interval.value]]

\* C6's case: an absolute range with only an end, set on a query that held
\* a relative range
C6_Witness ==
    /\ last_call.op = "add_timestamp_range_absolute"
    /\ DOMAIN last_call.before = {"relative"}
    /\ Supplied = {"end"}
    /\ DOMAIN query.timestamp_range = {"absolute"}

---------------------------------------------------------------------------
(* convert_result_to_dict applied to a response.                           *)

\* the columns of the response
DictColumns == << <<"a">>, <<"b">>, <<"c">> >>

\* the values of a scalar cell
Cells == { PyInt(1), PyInt(2) }

\* a cell that is an array, an object or (in a response built by the
\* caller) a set or an object that holds a set of strs
ContainerCells ==
    { PyList(<< PyInt(1) >>),
      PyDict(<< << PyStr(<<"x">>),
                   PyDict(<< << PyStr(<<"y">>), PyInt(1) >> >>) >> >>),
      PyDict(<< << PyStr(<<"x">>),
                   PyDict(<< << PyStr(<<"z">>), PyInt(2) >> >>) >> >>),
      PyDict(<< << PyStr(<<"x">>), PySet({ PyStr(<<"pq">>) }) >> >>),
      PyDict(<< << PyStr(<<"x">>), PySet({ PyStr(<<"p">>) }) >> >>),
      PySet({ PyInt(1) }), PySet({ PyInt(2) }) }

\* the rows of a response: scalar cells, the first two columns differing
\* from row to row; or rows alike in the first two columns, the last
\* column holding another scalar or a container
DictRows ==
    { row \in { << a, b, PyInt(1) >> : a \in Cells, b \in Cells } :
        row[2].value <= row[1].value }
        \cup { << PyInt(1), PyInt(1), c >> : c \in { PyInt(2) } \cup ContainerCells }

\* the responses: rows absent, or at most n of the rows given
RawData(columns, rows, n) ==
    { [result |-> [columns |-> columns]] }
        \cup { [result |-> [columns |-> columns, rows |-> r]] :
                 r \in UNION { [1..k -> rows] : k \in 0..n } }

\* the key names a caller may give: the columns and one name that is none
KeyNameChoices == { DictColumns[i] : i \in 1..Len(DictColumns) } \cup { <<"z">> }

\* key_names: None, or a list of at most two names, or one of three names
\* in which the last name stands twice
KeyNames ==
    { PyNone, PyList(<<>>) }
        \cup { PyList(<<k>>) : k \in KeyNameChoices }
        \cup { PyList(<<k[1], k[2]>>) : k \in KeyNameChoices \X KeyNameChoices }
        \cup { PyList(<< <<"a">>, <<"b">>, <<"a">> >>),
               PyList(<< <<"b">>, <<"a">>, <<"a">> >>) }

\* a caller holds a response and the key names
InitDict ==
    /\ query = None
    /\ \E raw_data \in RawData(DictColumns, DictRows, MaxRows), key_names \in KeyNames :
          last_call = [ op |-> "", raw_data |-> raw_data, key_names |-> key_names ]
    /\ result = NoResult
    /\ request = None
    /\ result_file = None
    /\ iq = None
    /\ db = None

\* SpirentTestCenterIQ.convert_result_to_dict(raw_data, key_names), called
\* once
convert ==
    /\ last_call.op = ""
    /\ last_call' = [ last_call EXCEPT !.op = "convert_result_to_dict" ]
    /\ \E outcome \in convert_result_to_dict(last_call.raw_data, last_call.key_names) :
          result' = outcome
    /\ UNCHANGED <<query, request, result_file, iq, db>>

NextDict == convert

SpecDict == InitDict /\ [][NextDict]_vars

\* the call has been made
Converted == last_call.op = "convert_result_to_dict"

\* the rows of the response it was given (none when absent)
GivenRows ==
    IF "rows" \in DOMAIN last_call.raw_data.result
    THEN last_call.raw_data.result.rows ELSE <<>>

GivenColumns == last_call.raw_data.result.columns

\* the full row dict of the i-th row: every column name with the row's value
\* in that column
RowDict(i) ==
    [ j \in 1..Len(GivenColumns) |-> << PyStr(GivenColumns[j]), GivenRows[i][j] >> ]

\* C7: with no key_names the result is a dict with the keys 1..n for the n
\* rows of the response, entry i being the row dict of the i-th row; absent
\* or empty rows give the empty dict.
C7_RowIndexKeys ==
    (Converted /\ last_call.key_names \in {PyNone, PyList(<<>>)}) =>
        /\ ~result.raised
        /\ result.value =
              [ i \in 1..Len(GivenRows) |-> << PyInt(i), PyDict(RowDict(i)) >> ]

\* C7's case: three rows, the second differing from the first
C7_Witness ==
    /\ Converted /\ last_call.key_names = PyNone
    /\ Len(GivenRows) = 3
    /\ GivenRows[1] # GivenRows[2]
    /\ Len(result.value) = 3

\* key_names is a non-empty list of distinct column names
ValidKeys ==
    /\ last_call.key_names.type = "list"
    /\ last_call.key_names.value # <<>>
    /\ \A n \in 1..Len(last_call.key_names.value) :
          /\ InList(last_call.key_names.value[n], GivenColumns)
          /\ \A h \in 1..(n - 1) :
                last_call.key_names.value[h] # last_call.key_names.value[n]

\* the key tuple of the i-th row: its values in the key columns, in
\* key_names order
KeyTuple(i) ==
    [ n \in 1..Len(last_call.key_names.value) |->
        Get(RowDict(i), PyStr(last_call.key_names.value[n])) ]

\* dict d holds the path tuple[n], tuple[n + 1], ...
RECURSIVE HasPath(_, _, _)
HasPath(d, tuple, n) ==
    /\ Has(d, tuple[n])
    /\ n < Len(tuple) =>
          /\ Get(d, tuple[n]).type = "dict"
          /\ HasPath(Get(d, tuple[n]).value, tuple, n + 1)

\* what that path leads to
RECURSIVE Leaf(_, _, _)
Leaf(d, tuple, n) ==
    IF n = Len(tuple) THEN Get(d, tuple[n])
    ELSE Leaf(Get(d, tuple[n]).value, tuple, n + 1)

\* the number of dicts found levels levels down in d
RECURSIVE LeafCount(_, _)
LeafCount(d, levels) ==
    IF levels = 0 THEN 1
    ELSE IF d = <<>> THEN 0
    ELSE LeafCount(Head(d)[2].value, levels - 1) + LeafCount(Tail(d), levels)

\* the last row with the key tuple of row i
LastWithTuple(i) ==
    CHOOSE j \in 1..Len(GivenRows) :
        /\ KeyTuple(j) = KeyTuple(i)
        /\ \A h \in (j + 1)..Len(GivenRows) : KeyTuple(h) # KeyTuple(i)

\* every cell of the response is a scalar
ScalarCells ==
    \A i \in 1..Len(GivenRows), j \in 1..Len(GivenColumns) :
        GivenRows[i][j].type \in {"int", "str", "NoneType"}

\* C8: with distinct column names k1..km as key_names the call returns a
\* result that holds, for every row r, the path r.k1 ... r.km, leading to a
\* dict over all the columns; it has as many leaves as there are distinct
\* key tuples; and when the cells are scalars, the leaf is the full row dict
\* of the last row with r's key tuple.
C8_NestedByKeys ==
    (Converted /\ ValidKeys) =>
        /\ ~result.raised
        /\ \A i \in 1..Len(GivenRows) :
              /\ HasPath(result.value, KeyTuple(i), 1)
              /\ Leaf(result.value, KeyTuple(i), 1).type = "dict"
              /\ { Leaf(result.value, KeyTuple(i), 1).value[j][1] :
                     j \in 1..Len(Leaf(result.value, KeyTuple(i), 1).value) }
                    = { PyStr(GivenColumns[j]) : j \in 1..Len(GivenColumns) }
              /\ ScalarCells =>
                    Leaf(result.value, KeyTuple(i), 1) = PyDict(RowDict(LastWithTuple(i)))
        /\ LeafCount(result.value, Len(last_call.key_names.value))
              = Cardinality({ KeyTuple(i) : i \in 1..Len(GivenRows) })

\* C9: a key name that is no column of the response raises the
\* column-not-found error (KeyError) before any row is processed, wherever
\* the name stands in key_names and whether or not there are rows; no
\* result is returned.
C9_UnknownKeyRaisesFirst ==
    ( /\ Converted
      /\ last_call.key_names.type = "list"
      /\ \E n \in 1..Len(last_call.key_names.value) :
            ~InList(last_call.key_names.value[n], GivenColumns) )
        => /\ result.raised
           /\ result.error = "KeyError"
           /\ result.rows_processed = 0
           /\ result.value = None

\* C9's case: the unknown name stands second, after a column, and the
\* response has rows
C9_Witness ==
    /\ Converted
    /\ last_call.key_names.type = "list"
    /\ Len(last_call.key_names.value) = 2
    /\ InList(last_call.key_names.value[1], GivenColumns)
    /\ ~InList(last_call.key_names.value[2], GivenColumns)
    /\ Len(GivenRows) >= 2
    /\ result.raised /\ result.rows_processed = 0

---------------------------------------------------------------------------
(* SpirentTestCenterIQ.convert_result_to_csv, called once on a response.   *)

\* the column lists of a response
CsvColumns == { << <<"a">> >>, << <<"a">>, <<"b">> >> }

\* the values of a cell: null, a number, the empty string, a string with a
\* comma and a quote, a string with a line break
CsvCells ==
    { PyNone, PyInt(12), PyStr(<<>>), PyStr(<<"x", ",", "\"">>),
      PyStr(<<"x", "\n", "y">>) }

\* os.linesep: "\n" on POSIX, "\r\n" on Windows
Lineseps == { <<"\n">>, <<"\r", "\n">> }

InitCsv ==
    /\ query = None
    /\ last_call = NoCall
    /\ result = NoResult
    /\ request = None
    /\ result_file = None
    /\ iq = None
    /\ db = None

\* SpirentTestCenterIQ.convert_result_to_csv(raw_data, filename), called
\* once; it returns None
convert_csv ==
    /\ last_call = NoCall
    /\ \E columns \in CsvColumns, linesep \in Lineseps :
          \E raw_data \in RawData(columns, [1..Len(columns) -> CsvCells], MaxCsvRows) :
              /\ last_call' = [ op |-> "convert_result_to_csv",
                                raw_data |-> raw_data, linesep |-> linesep ]
              /\ result_file' = convert_result_to_csv(raw_data, linesep)
    /\ result' = NoResult
    /\ UNCHANGED <<query, request, iq, db>>

NextCsv == convert_csv

SpecCsv == InitCsv /\ [][NextCsv]_vars

\* the call has been made
Written == last_call.op = "convert_result_to_csv"

\* the rows of the response written
WrittenRows ==
    IF "rows" \in DOMAIN last_call.raw_data.result
    THEN last_call.raw_data.result.rows ELSE <<>>

\* the lines of a text as a reader of the file sees them: a line ends at
\* "\r\n", "\r" or "\n"
RECURSIVE ReadLines(_, _, _)
ReadLines(text, i, line) ==
    IF i > Len(text) THEN (IF line = <<>> THEN <<>> ELSE <<line>>)
    ELSE IF text[i] = "\r" /\ i < Len(text) /\ text[i + 1] = "\n"
    THEN <<line>> \o ReadLines(text, i + 2, <<>>)
    ELSE IF text[i] \in {"\r", "\n"}
    THEN <<line>> \o ReadLines(text, i + 1, <<>>)
    ELSE ReadLines(text, i + 1, Append(line, text[i]))

\* a record as the writer formats it, without its terminator
Record(row) == SubSeq(writerow(row), 1, Len(writerow(row)) - Len(lineterminator))

\* C10: the file holds exactly 1 + n lines for a response of n rows: the
\* column header first, then one line per row in response order; only the
\* header line when rows are absent or empty.
C10_HeaderThenOneLinePerRow ==
    Written =>
        LET lines == ReadLines(result_file, 1, <<>>)
            columns == last_call.raw_data.result.columns
        IN  /\ Len(lines) = 1 + Len(WrittenRows)
            /\ lines[1] = Record([ i \in 1..Len(columns) |-> PyStr(columns[i]) ])
            /\ \A i \in 1..Len(WrittenRows) : lines[1 + i] = Record(WrittenRows[i])

---------------------------------------------------------------------------
(* The client: queries, database info and the current database, on a       *)
(* client whose database list is loaded.                                   *)

\* the address of the service
BaseUrl == <<"http://iq:9199">>

\* timestamps of the service: TsEarly is the earliest instant and the
\* greatest string, TsLate and TsLateToo are one instant
TsEarly == <<"2019-12-", "1", "1", "T", "0", "2", ":00:00", "+", "0", "3", ":00">>
TsLate == <<"2019-12-", "1", "1", "T", "0", "0", ":00:00", "Z">>
TsLateToo == <<"2019-12-", "1", "1", "T", "0", "1", ":00:00", "+", "0", "1", ":00">>

\* the metadata of a database written by TestCenter
TestCenterMetadata == [ k \in {"application.name"} |-> <<"TestCenter">> ]

\* the info of a database, but for its id
DatabaseInfo(name, last_updated, metadata) ==
    [ name |-> name, last_updated |-> last_updated, metadata |-> metadata ]

\* the id of the i-th database of the service
DatabaseId(i) == <<"d">> \o Digits(i, 1)

\* what the service answers to "databases": at most n databases, each
\* after one of the templates; the i-th has the id d<i>, or the id its
\* template gives
Catalogs(templates, n) ==
    UNION { { [ i \in 1..k |->
                  [ id |-> IF "id" \in DOMAIN c[i] THEN c[i].id ELSE DatabaseId(i),
                    name |-> c[i].name,
                    last_updated |-> c[i].last_updated, metadata |-> c[i].metadata ] ] :
              c \in [1..k -> templates] } : k \in 0..n }

\* the answer with a JSON body
HttpOk(content, body) == [ status_code |-> 200, content |-> content, body |-> body ]

\* the answers of a failing service: an error with a message, an error
\* without one, an error page that is no JSON
ErrorResponses ==
    { [ status_code |-> 400, content |-> "dict", body |-> [message |-> <<"bad request">>] ],
      [ status_code |-> 500, content |-> "dict", body |-> [error |-> <<"internal">>] ],
      [ status_code |-> 404, content |-> "text", body |-> [text |-> <<"Not Found">>] ] }

\* self.stc: no STC API, or one whose session writes database d1 (a host
\* that has bound the module's global stc; without it __init__ with an
\* stc_api_instance fails in subscribe)
Stcs == { PyNone, [ type |-> "stc", ResultDbId |-> DatabaseId(1) ] }

\* the catalog of query definitions loaded from the definitions file
QueryDefinitions == [ v \in { <<"view">> } |-> [ multi_result |-> <<"definition">> ] ]

\* what the service answers to "databases/<id>", the request made for an
\* entry of its list: the info of the database, with the name and the last
\* update it has by then, and no sets
DatabaseDetail(id, entry, name, last_updated) ==
    [ id |-> id, name |-> name, first_created |-> TsEarly,
      last_updated |-> last_updated, metadata |-> entry.metadata,
      result_sets |-> <<>>, dimension_sets |-> <<>> ]

\* the answers to "databases/<id>", requested for an entry of the list: the
\* database as listed, the database renamed and updated since it was
\* listed, an info without first_created, and the answers of a failing
\* service
DetailAnswers(id, entry) ==
    { HttpOk("dict", DatabaseDetail(id, entry, entry.name, entry.last_updated)),
      HttpOk("dict", DatabaseDetail(id, entry, <<"m">>, TsLateToo)),
      HttpOk("dict", [ id |-> id, name |-> entry.name,
                       last_updated |-> entry.last_updated,
                       metadata |-> entry.metadata,
                       result_sets |-> <<>>, dimension_sets |-> <<>> ]) }
        \cup ErrorResponses

\* the answers of a service that holds the catalog and does not change:
\* the list, then the info of every TestCenter entry as listed
ServiceAnswers(catalog) ==
    << HttpOk("list", catalog) >>
        \o [ k \in 1..Len(SelectSeq(catalog, IsTestCenter)) |->
               HttpOk("dict", DatabaseDetail(SelectSeq(catalog, IsTestCenter)[k].id,
                                             SelectSeq(catalog, IsTestCenter)[k],
                                             SelectSeq(catalog, IsTestCenter)[k].name,
                                             SelectSeq(catalog, IsTestCenter)[k].last_updated)) ]

\* SpirentTestCenterIQ.__init__: the definitions are loaded, the database
\* list is fetched (here: from a service that holds the catalog) and the
\* current database is set from the session
SpirentTestCenterIQ(stc, catalog) ==
    set_current_db(
        refresh_database_list_answered(
            refresh_database_list(
                [ spirent_iq_rest_api_url |-> BaseUrl, stc |-> stc,
                  query_definitions |-> QueryDefinitions, db_list |-> <<>>,
                  current_db |-> PyNone ]),
            ServiceAnswers(catalog)).self,
        None, None)

\* no call of the client is waiting for the service
Idle == IF "pc" \in DOMAIN last_call THEN last_call.pc = "done" ELSE TRUE

\* the databases of the client specification
ClientInfos ==
    { DatabaseInfo(<<"n">>, TsLate, TestCenterMetadata),
      DatabaseInfo(<<"m">>, TsLate, TestCenterMetadata) }

\* the db_id arguments: omitted, a database of the list, an unknown one
DbIdArgs == { None, DatabaseId(2), DatabaseId(9) }

InitClient ==
    /\ \E stc \in Stcs, catalog \in Catalogs(ClientInfos, MaxDatabases) :
          iq = SpirentTestCenterIQ(stc, catalog)
    /\ last_call = NoCall
    /\ result = NoResult
    /\ request = <<>>
    /\ query = None
    /\ result_file = None
    /\ db = None

\* SpirentTestCenterIQ.execute_query(query, db_id=database_id)
call_execute_query ==
    /\ \E definition \in { [ single_result |-> <<"definition">> ] },
          database_id \in DbIdArgs,
          response \in { HttpOk("dict", b) : b \in Responses } \cup ErrorResponses :
          /\ last_call' = [ op |-> "execute_query", query |-> definition,
                            db_id |-> database_id, response |-> response ]
          /\ request' = << execute_query_request(iq, definition, <<"once">>, database_id) >>
          /\ result' = __execute(response)
    /\ UNCHANGED <<iq, query, result_file, db>>

\* SpirentTestCenterIQ.execute_view_query(view_name, db_id=database_id)
call_execute_view_query ==
    /\ \E view_name \in { <<"view">>, <<"other">> }, database_id \in DbIdArgs,
          response \in { HttpOk("dict", b) : b \in Responses } \cup ErrorResponses :
          \E r \in { execute_view_query(iq, view_name, database_id, response) } :
              /\ last_call' = [ op |-> "execute_view_query", view_name |-> view_name,
                                db_id |-> database_id,
                                response |-> IF r.requests = <<>> THEN None ELSE response ]
              /\ request' = r.requests
              /\ result' = r.outcome
    /\ UNCHANGED <<iq, query, result_file, db>>

\* SpirentTestCenterIQ.get_db_info(db_id=database_id, summary)
call_get_db_info ==
    /\ \E database_id \in { None, DatabaseId(1) }, summary \in BOOLEAN,
          response \in { HttpOk("dict", [ id |-> DatabaseId(1), name |-> <<"n">>,
                                          last_updated |-> TsLate,
                                          metadata |-> TestCenterMetadata ]) }
                          \cup ErrorResponses :
          \E r \in { get_db_info(iq, database_id, summary, response) } :
              /\ last_call' = [ op |-> "get_db_info", db_id |-> database_id,
                                summary |-> summary,
                                response |-> IF r.requests = <<>> THEN None ELSE response ]
              /\ request' = r.requests
              /\ result' = r.outcome
    /\ UNCHANGED <<iq, query, result_file, db>>

\* SpirentTestCenterIQ.get_all_db_info(summary)
call_get_all_db_info ==
    /\ \E summary \in BOOLEAN,
          response \in { HttpOk("list", c) : c \in Catalogs(ClientInfos, 1) }
                          \cup ErrorResponses :
          /\ last_call' = [ op |-> "get_all_db_info", summary |-> summary,
                            response |-> response ]
          /\ request' = << get_all_db_info_request(iq, summary) >>
          /\ result' = __execute(response)
    /\ UNCHANGED <<iq, query, result_file, db>>

\* SpirentTestCenterIQ.set_current_db(name, db_id=database_id); it returns
\* the new current database
call_set_current_db ==
    /\ Idle
    /\ \E name \in { None, <<"n">>, <<"x">> }, database_id \in DbIdArgs :
          /\ iq' = set_current_db(iq, name, database_id)
          /\ last_call' = [ op |-> "set_current_db", name |-> name, db_id |-> database_id ]
          /\ result' = [ raised |-> FALSE, error |-> "", message |-> None,
                         value |-> set_current_db(iq, name, database_id).current_db ]
    /\ request' = <<>>
    /\ UNCHANGED <<query, result_file, db>>

NextClient ==
    \/ call_execute_query
    \/ call_execute_view_query
    \/ call_get_db_info
    \/ call_get_all_db_info
    \/ call_set_current_db

SpecClient == InitClient /\ [][NextClient]_vars

\* the last call sent a request and got the service's answer
Answered == request # <<>> /\ last_call.op # "set_current_db"

\* C11: a request answered with a non-2xx status and a JSON body carrying
\* 'message' makes execute_query, get_db_info and get_all_db_info fail with
\* a RuntimeError carrying that message; the error body is not returned.
C11_ErrorStatusRaisesRuntimeError ==
    ( /\ last_call.op \in {"execute_query", "get_db_info", "get_all_db_info"}
      /\ Answered
      /\ last_call.response.status_code \notin 200..299
      /\ last_call.response.content = "dict"
      /\ "message" \in DOMAIN last_call.response.body )
        => /\ result.raised
           /\ result.error = "RuntimeError"
           /\ result.message = last_call.response.body.message

\* C12: execute_view_query with a name that is not in the catalog raises
\* nothing, sends no request and returns None; with a name of the catalog
\* it sends the request of execute_query for that definition and the same
\* database id, and returns what execute_query returns.  The catalog is
\* what it was.
C12_ViewLookup ==
    last_call.op = "execute_view_query" =>
        /\ iq.query_definitions = QueryDefinitions
        /\ IF last_call.view_name \in DOMAIN QueryDefinitions
           THEN /\ request =
                     << [ method |-> "post",
                          url |-> BaseUrl \o <<"/", "queries">>,
                          json |-> [ database |->
                                       [ id |-> IF last_call.db_id = None
                                                THEN get_session_db_id(iq)
                                                ELSE last_call.db_id ],
                                     mode |-> <<"once">>,
                                     definition |-> QueryDefinitions[last_call.view_name] ] ] >>
                /\ result = __execute(last_call.response)
           ELSE /\ request = <<>>
                /\ ~result.raised
                /\ result.value = None

\* C12's case: an unknown view was asked for with a db_id on a client that
\* holds two databases, and no request was sent
C12_Witness ==
    /\ last_call.op = "execute_view_query"
    /\ last_call.view_name = <<"other">>
    /\ last_call.db_id = DatabaseId(2)
    /\ request = <<>>
    /\ Len(iq.db_list) = 2

\* C13: a query sent without a db_id carries the id of the current
\* database, the one last selected with set_current_db; with a db_id it
\* carries that id.
C13_DefaultsToCurrentDb ==
    ( /\ last_call.op \in {"execute_query", "execute_view_query"}
      /\ Answered )
        => IF last_call.db_id # None
           THEN request[1].json.database.id = last_call.db_id
           ELSE iq.current_db.type = "IqDatabase"
                   => request[1].json.database.id = iq.current_db.id

---------------------------------------------------------------------------
(* The database list: refresh_database_list and find_db_by_name.           *)

\* the databases of the service: four written by TestCenter (three named
\* n, one of them earlier and two of one instant, and one named m), one
\* written by another application, one without the metadata key
AllInfos ==
    { DatabaseInfo(<<"n">>, TsEarly, TestCenterMetadata),
      DatabaseInfo(<<"n">>, TsLate, TestCenterMetadata),
      DatabaseInfo(<<"n">>, TsLateToo, TestCenterMetadata),
      DatabaseInfo(<<"m">>, TsLate, TestCenterMetadata),
      DatabaseInfo(<<"n">>, TsLate, [ k \in {"application.name"} |-> <<"Other">> ]),
      DatabaseInfo(<<"n">>, TsLate, [ k \in {"test.running"} |-> <<"false">> ]) }

\* databases of TestCenter that the service lists with an empty id and
\* with a null id
NoIdInfos ==
    { [ id |-> i, name |-> <<"n">>, last_updated |-> TsLate,
        metadata |-> TestCenterMetadata ] : i \in { <<>>, None } }

InitDatabases ==
    /\ \E catalog \in Catalogs(AllInfos, MaxDatabases) :
          iq = SpirentTestCenterIQ(PyNone, catalog)
    /\ last_call = NoCall
    /\ result = NoResult
    /\ request = <<>>
    /\ query = None
    /\ result_file = None
    /\ db = None

\* the call of refresh_database_list that is under way, as the variables
\* hold it
PendingCall ==
    [ self |-> iq, pc |-> last_call.pc, all_db_info |-> last_call.all_db_info,
      i |-> last_call.i, requests |-> request, outcome |-> result ]

\* the variables once the call has got so far; before is the length of
\* db_list when it was called
Blocked(call, before) ==
    /\ iq' = call.self
    /\ last_call' = [ op |-> "refresh_database_list", pc |-> call.pc,
                      all_db_info |-> call.all_db_info, i |-> call.i,
                      before |-> before ]
    /\ request' = call.requests
    /\ result' = call.outcome
    /\ UNCHANGED <<query, result_file, db>>

\* SpirentTestCenterIQ.refresh_database_list() is called and waits for the
\* list
call_refresh_database_list ==
    /\ Idle
    /\ Blocked(refresh_database_list(iq), Len(iq.db_list))

\* the list is answered: the call ends, or waits for the info of the first
\* database it keeps
answer_get_all_db_info ==
    /\ ~Idle
    /\ last_call.pc = "get_all_db_info"
    /\ \E response \in { HttpOk("list", c) :
                             c \in Catalogs(AllInfos \cup NoIdInfos, MaxDatabases) }
                          \cup { HttpOk("dict", <<>>) } \cup ErrorResponses :
          Blocked(refresh_database_list_get_all_db_info(PendingCall, response),
                  last_call.before)

\* the info of a database is answered: the call ends, or waits for the
\* info of the next database it keeps
answer_get_db_info ==
    /\ ~Idle
    /\ last_call.pc = "IqDatabase"
    /\ \E response \in DetailAnswers(SessionOr(iq, last_call.all_db_info[last_call.i].id),
                                      last_call.all_db_info[last_call.i]) :
          Blocked(refresh_database_list_IqDatabase(PendingCall, response),
                  last_call.before)

\* SpirentTestCenterIQ.find_db_by_name(name)
call_find_db_by_name ==
    /\ Idle
    /\ \E name \in { <<"n">>, <<"m">>, <<"x">> } :
          /\ last_call' = [ op |-> "find_db_by_name", name |-> name ]
          /\ result' = [ raised |-> FALSE, error |-> "", message |-> None,
                         value |-> find_db_by_name(iq.db_list, name) ]
    /\ request' = <<>>
    /\ UNCHANGED <<iq, query, result_file, db>>

NextDatabases ==
    \/ call_refresh_database_list
    \/ answer_get_all_db_info
    \/ answer_get_db_info
    \/ call_find_db_by_name

SpecDatabases == InitDatabases /\ [][NextDatabases]_vars

\* the positions in db_list of the databases with the name asked for
Matches ==
    { i \in 1..Len(iq.db_list) : iq.db_list[i].name = last_call.name }

\* those of them with the greatest timestamp
Latest ==
    { i \in Matches :
        \A j \in Matches : dateutil_parse(iq.db_list[j].last_updated)
                              <= dateutil_parse(iq.db_list[i].last_updated) }

\* C14: find_db_by_name returns, among the databases of the list with the
\* name, one with the latest last_updated, whatever their order; None when
\* no database has the name.
C14_LatestOfName ==
    last_call.op = "find_db_by_name" =>
        IF Matches = {} THEN result.value = PyNone
        ELSE \E i \in Latest : result.value = iq.db_list[i]

\* C14's case: two databases have the name, the later one stands first in
\* the list (and its timestamp is the smaller string), and it is returned
C14_Witness ==
    /\ last_call.op = "find_db_by_name"
    /\ Matches = {1, 2}
    /\ Latest = {1}
    /\ iq.db_list[2].last_updated = TsEarly
    /\ result.value = iq.db_list[1]

\* C15 as stated: when several databases with the name share the greatest
\* timestamp, find_db_by_name returns the last of them in db_list.
C15_LastOfEqualWins ==
    (last_call.op = "find_db_by_name" /\ Cardinality(Latest) > 1) =>
        \E i \in Latest : /\ result.value = iq.db_list[i]
                          /\ \A j \in Latest : j <= i

\* C15 amended: when several databases with the name share the greatest
\* timestamp, find_db_by_name returns the first of them in db_list (a
\* match replaces the one held only when its timestamp is later).
C15_FirstOfEqualWins ==
    (last_call.op = "find_db_by_name" /\ Cardinality(Latest) > 1) =>
        \E i \in Latest : /\ result.value = iq.db_list[i]
                          /\ \A j \in Latest : i <= j

\* C15's case: two databases with the name whose timestamps are one
\* instant, written differently; the first is returned
C15_Witness ==
    /\ last_call.op = "find_db_by_name"
    /\ Latest = {1, 2}
    /\ iq.db_list[1].last_updated = TsLateToo
    /\ iq.db_list[2].last_updated = TsLate
    /\ result.value = iq.db_list[1]

\* the last call was a refresh_database_list that has returned
Refreshed ==
    /\ last_call.op = "refresh_database_list"
    /\ last_call.pc = "done"
    /\ ~result.raised

\* the positions of the entries of the list it was answered with whose
\* metadata has application.name equal to "TestCenter"
Kept ==
    { i \in 1..Len(last_call.all_db_info) :
        /\ "application.name" \in DOMAIN last_call.all_db_info[i].metadata
        /\ last_call.all_db_info[i].metadata["application.name"] = <<"TestCenter">> }

\* the k-th of them
KeptAt(k) == CHOOSE i \in Kept : Cardinality({ j \in Kept : j < i }) = k - 1

\* C16: after refresh_database_list has returned, db_list holds one handle
\* for exactly the catalog entries whose metadata has application.name
\* "TestCenter", in catalog order, and nothing of the list that was there
\* before the call.
C16_ListReplacedByTestCenterEntries ==
    Refreshed =>
        /\ Len(iq.db_list) = Cardinality(Kept)
        /\ \A k \in 1..Len(iq.db_list) :
              /\ iq.db_list[k].type = "IqDatabase"
              /\ iq.db_list[k].db_id = last_call.all_db_info[KeptAt(k)].id

\* C16's case: the list was not empty, and the catalog holds an entry
\* without the metadata key before a TestCenter entry, whose handle is
\* the only one afterwards
C16_Witness ==
    /\ Refreshed
    /\ last_call.before > 0
    /\ Len(last_call.all_db_info) = 2
    /\ Kept = {2}
    /\ "application.name" \notin DOMAIN last_call.all_db_info[1].metadata
    /\ Len(iq.db_list) = 1
    /\ iq.db_list[1].db_id = last_call.all_db_info[2].id

---------------------------------------------------------------------------
(* The database object: IqDatabase.refresh, IqDatabase.refresh_set_list    *)
(* and the column information of its sets.                                 *)
(* A linked dimension set is the position in set_list of the object that   *)
(* find_set_by_name returned, 0 for None.                                  *)

\* the description of a fact in the metadata
FactInfo(name) ==
    [ name |-> name, type |-> <<"type of ">> \o name,
      unit |-> <<"unit of ">> \o name,
      display_name |-> <<"display name of ">> \o name,
      description |-> <<"description of ">> \o name ]

\* the description of an attribute in the metadata: it has no unit
AttributeInfo(name) ==
    [ name |-> name, type |-> <<"type of ">> \o name,
      display_name |-> <<"display name of ">> \o name,
      description |-> <<"description of ">> \o name ]

\* one entry of the metadata's result_sets / dimension_sets
ResultSetInfo(name, facts, dimension_sets) ==
    [ name |-> name,
      facts |-> [i \in 1..Len(facts) |-> FactInfo(facts[i])],
      dimension_sets |-> dimension_sets ]

DimensionSetInfo(name, attributes) ==
    [ name |-> name,
      attributes |-> [i \in 1..Len(attributes) |-> AttributeInfo(attributes[i])] ]

\* a body of GET /databases/<id> as IqDatabase.refresh reads it
SchemaInfo(last_updated, metadata, result_sets, dimension_sets) ==
    [ id |-> db_id, name |-> <<"n">>,
      first_created |-> TsEarly, last_updated |-> last_updated,
      metadata |-> metadata,
      result_sets |-> result_sets, dimension_sets |-> dimension_sets ]

\* the metadata the service answers with: one result set and its dimension
\* set, which it declares its primary one; two result sets declaring
\* dimension sets that come later in the set-list, one of them in the
\* opposite order and with a primary dimension set, the other with a
\* primary name no set has; dimension sets only; a result set that
\* declares no dimension set
SchemaInfos ==
    { SchemaInfo(TsEarly, [k \in {"test.running"} |-> TRUE],
        << [primary_dimension_set |-> <<"s">>]
              @@ ResultSetInfo(<<"tx">>, << <<"c">> >>, << <<"s">> >>) >>,
        << DimensionSetInfo(<<"s">>, << <<"id">> >>) >>),
      SchemaInfo(TsLate, [k \in {} |-> TRUE],
        << [primary_dimension_set |-> <<"t">>]
              @@ ResultSetInfo(<<"tx">>, << <<"c">>, <<"d">> >>, << <<"t">>, <<"s">> >>),
           [primary_dimension_set |-> <<"u">>]
              @@ ResultSetInfo(<<"rx">>, << <<"c">> >>, << <<"t">> >>) >>,
        << DimensionSetInfo(<<"s">>, << <<"id">> >>),
           DimensionSetInfo(<<"t">>, << <<"x">>, <<"y">> >>) >>),
      SchemaInfo(TsLate, [k \in {} |-> TRUE],
        << >>,
        << DimensionSetInfo(<<"s">>, << <<"id">> >>) >>),
      SchemaInfo(TsLateToo, [k \in {"test.running"} |-> FALSE],
        << ResultSetInfo(<<"rx">>, << <<"c">> >>, << >>) >>,
        << >>) }

\* IqDatabase.set_profile_id(profile_id)
IqDatabase_set_profile_id(self, profile_id) ==
    [ self EXCEPT !.profile_id = profile_id ]

\* IqDatabase.get_db_url: the results URL of the database, with the profile
\* when one is set ("if self.profile_id": None and "" are not)
IqDatabase_get_db_url(self) ==
    BaseUrl \o <<"/results/">> \o self.db_id
        \o (IF self.profile_id # None /\ self.profile_id # <<>>
            THEN <<"?profileId=">> \o self.profile_id ELSE <<>>)

\* the arguments of a get_columns_info call: none, or latest
NoArgs == [type |-> "NoneType"]
Latest_(value) == [type |-> "bool", value |-> value]
ColumnsInfoArgs == { NoArgs, Latest_(FALSE), Latest_(TRUE) }

\* iq_set.get_columns_info(...): IqSet.get_columns_info(self) takes no
\* argument, so a dimension set given latest raises TypeError;
\* IqResultSet.get_columns_info(self, latest=False)
call_columns_info(set_list, iq_set, args) ==
    IF iq_set.kind = "dimension" /\ args # NoArgs
    THEN [ raised |-> TRUE, error |-> "TypeError", value |-> None ]
    ELSE [ raised |-> FALSE, error |-> "",
           value |-> get_columns_info(set_list, iq_set,
                        IF args = NoArgs THEN FALSE ELSE args.value) ]

\* IqSingleQuery.refresh_columns_info: columns is the alias list
Columns(outcome) ==
    IF outcome.raised THEN outcome
    ELSE [ outcome EXCEPT !.value = outcome.value.column_alias_list ]

\* IqSingleQuery.__init__(db, iq_set_name): find_set_by_name, then
\* refresh_columns_info() passes latest=False to the set; the outcome is the
\* construction's, the value the query's columns
IqSingleQuery_init(self, iq_set_name) ==
    IF find_set_by_name(self.set_list, iq_set_name) = 0
    THEN [ raised |-> TRUE, error |-> "AttributeError", value |-> None ]
    ELSE Columns(call_columns_info(self.set_list,
                    self.set_list[find_set_by_name(self.set_list, iq_set_name)],
                    Latest_(FALSE)))

\* the body shared by get_column_type, get_column_unit,
\* get_column_display_name and get_column_description: no answer
\* (returns None) for a name the column map lacks
ColumnAttribute_NoCheck(iq_set, column_name, attribute) ==
    IF column_name \in DOMAIN iq_set.column_info
       /\ attribute \in DOMAIN iq_set.column_info[column_name]
    THEN [ raised |-> FALSE, error |-> "", message |-> None,
           value |-> iq_set.column_info[column_name][attribute] ]
    ELSE [ raised |-> FALSE, error |-> "", message |-> None, value |-> None ]

\* the body shared by get_column_type, get_column_unit,
\* get_column_display_name and get_column_description: Exception("The
\* column '<name>' was not found.") for a name the column map lacks,
\* self.column_info[column_name][attribute] otherwise, a KeyError when the
\* column has no such attribute
ColumnAttribute(iq_set, column_name, attribute) ==
    IF column_name \notin DOMAIN iq_set.column_info
    THEN [ raised |-> TRUE, error |-> "Exception",
           message |-> <<"The column '">> \o column_name \o <<"' was not found.">>,
           value |-> None ]
    ELSE IF attribute \notin DOMAIN iq_set.column_info[column_name]
    THEN [ raised |-> TRUE, error |-> "KeyError", message |-> None, value |-> None ]
    ELSE [ raised |-> FALSE, error |-> "", message |-> None,
           value |-> iq_set.column_info[column_name][attribute] ]

\* IqSet.get_column_type / get_column_unit / get_column_display_name /
\* get_column_description
get_column_type(iq_set, column_name) ==
    ColumnAttribute(iq_set, column_name, "type")
get_column_unit(iq_set, column_name) ==
    ColumnAttribute(iq_set, column_name, "unit")
get_column_display_name(iq_set, column_name) ==
    ColumnAttribute(iq_set, column_name, "display_name")
get_column_description(iq_set, column_name) ==
    ColumnAttribute(iq_set, column_name, "description")

\* the column names asked for: a fact, an attribute, a column a caller
\* populates, a name no set has
ColumnNames == { <<"c">>, <<"id">>, <<"n1">>, <<"zz">> }

InitSchema ==
    /\ \E info \in SchemaInfos : db = IqDatabase_init(db_id, info)
    /\ last_call = NoCall
    /\ result = NoResult
    /\ request = <<>>
    /\ query = None
    /\ result_file = None
    /\ iq = None

\* db.refresh(): the service answers GET /databases/<id> with info
call_refresh ==
    /\ \E info \in SchemaInfos : db' = IqDatabase_refresh(db, info)
    /\ last_call' = [ op |-> "refresh" ]
    /\ result' = NoResult
    /\ UNCHANGED <<query, request, result_file, iq>>

\* db.refresh_set_list()
call_refresh_set_list ==
    /\ Len(db.set_list) + Len(db.info.result_sets)
         + Len(db.info.dimension_sets) <= MaxSets
    /\ db' = IqDatabase_refresh_set_list(db)
    /\ last_call' = [ op |-> "refresh_set_list" ]
    /\ result' = NoResult
    /\ UNCHANGED <<query, request, result_file, iq>>

\* the dimension sets linked and the columns listed by all sets of a list
Links(set_list) == Concat([i \in 1..Len(set_list) |-> set_list[i].dimension_sets])
Listed(set_list) == Concat([i \in 1..Len(set_list) |-> set_list[i].column_list])

\* db.set_list[i].refresh_related_set_info()
call_refresh_related_set_info ==
    /\ \E i \in 1..Len(db.set_list) :
          /\ Len(Links(db.set_list)) + Len(db.set_list[i].dimension_set_names)
                <= MaxLinks
          /\ db' = WithLinked(db,
                       [db.set_list EXCEPT
                           ![i] = refresh_related_set_info(db.set_list, @)],
                       Len(db.result_set_list))
          /\ last_call' = [ op |-> "refresh_related_set_info", iq_set |-> i ]
    /\ result' = NoResult
    /\ UNCHANGED <<query, request, result_file, iq>>

\* the columns a caller passes to populate_columns: one, without attributes
ColumnsArgs == { << [ name |-> <<"n1">> ] >> }

\* db.set_list[i].populate_columns(columns)
call_populate_columns ==
    /\ \E i \in 1..Len(db.set_list), columns \in ColumnsArgs :
          /\ Len(Listed(db.set_list)) + Len(columns) <= MaxColumns
          /\ db' = WithLinked(db,
                       [db.set_list EXCEPT
                           ![i] = IqSet_populate_columns(@, columns)],
                       Len(db.result_set_list))
          /\ last_call' = [ op |-> "populate_columns", iq_set |-> i,
                            columns |-> columns ]
    /\ result' = NoResult
    /\ UNCHANGED <<query, request, result_file, iq>>

\* db.set_profile_id(profile_id)
call_set_profile_id ==
    /\ \E profile_id \in { None, <<>>, <<"p1">> } :
          /\ db' = IqDatabase_set_profile_id(db, profile_id)
          /\ last_call' = [ op |-> "set_profile_id", profile_id |-> profile_id ]
    /\ result' = NoResult
    /\ UNCHANGED <<query, request, result_file, iq>>

\* db.get_db_url()
call_get_db_url ==
    /\ last_call' = [ op |-> "get_db_url" ]
    /\ result' = [ raised |-> FALSE, error |-> "", message |-> None,
                   value |-> IqDatabase_get_db_url(db) ]
    /\ UNCHANGED <<db, query, request, result_file, iq>>

\* db.set_list[i].get_columns_info(), .get_columns_info(latest)
call_get_columns_info ==
    /\ \E i \in 1..Len(db.set_list), args \in ColumnsInfoArgs :
          /\ last_call' = [ op |-> "get_columns_info", iq_set |-> i, args |-> args ]
          /\ result' = call_columns_info(db.set_list, db.set_list[i], args)
    /\ UNCHANGED <<db, query, request, result_file, iq>>

\* IqSingleQuery(db, iq_set_name)
call_IqSingleQuery ==
    /\ \E iq_set_name \in { <<"tx">>, <<"rx">>, <<"s">>, <<"t">> } :
          /\ last_call' = [ op |-> "IqSingleQuery", iq_set_name |-> iq_set_name ]
          /\ result' = IqSingleQuery_init(db, iq_set_name)
    /\ UNCHANGED <<db, query, request, result_file, iq>>

\* db.set_list[i].get_column_type(column_name), get_column_unit,
\* get_column_display_name, get_column_description
call_get_column_type ==
    /\ \E i \in 1..Len(db.set_list), column_name \in ColumnNames :
          /\ last_call' = [ op |-> "get_column_type", iq_set |-> i,
                            column_name |-> column_name ]
          /\ result' = get_column_type(db.set_list[i], column_name)
    /\ UNCHANGED <<db, query, request, result_file, iq>>

call_get_column_unit ==
    /\ \E i \in 1..Len(db.set_list), column_name \in ColumnNames :
          /\ last_call' = [ op |-> "get_column_unit", iq_set |-> i,
                            column_name |-> column_name ]
          /\ result' = get_column_unit(db.set_list[i], column_name)
    /\ UNCHANGED <<db, query, request, result_file, iq>>

call_get_column_display_name ==
    /\ \E i \in 1..Len(db.set_list), column_name \in ColumnNames :
          /\ last_call' = [ op |-> "get_column_display_name", iq_set |-> i,
                            column_name |-> column_name ]
          /\ result' = get_column_display_name(db.set_list[i], column_name)
    /\ UNCHANGED <<db, query, request, result_file, iq>>

call_get_column_description ==
    /\ \E i \in 1..Len(db.set_list), column_name \in ColumnNames :
          /\ last_call' = [ op |-> "get_column_description", iq_set |-> i,
                            column_name |-> column_name ]
          /\ result' = get_column_description(db.set_list[i], column_name)
    /\ UNCHANGED <<db, query, request, result_file, iq>>

NextSchema ==
    \/ call_refresh
    \/ call_refresh_set_list
    \/ call_refresh_related_set_info
    \/ call_populate_columns
    \/ call_set_profile_id
    \/ call_get_db_url
    \/ call_get_columns_info
    \/ call_IqSingleQuery
    \/ call_get_column_type
    \/ call_get_column_unit
    \/ call_get_column_display_name
    \/ call_get_column_description

SpecSchema == InitSchema /\ [][NextSchema]_vars

\* the set a result_sets entry / a dimension_sets entry of the metadata
\* stands for is at position i of the list
HoldsResultSet(list, i, set_info) ==
    /\ list[i].kind = "result"
    /\ list[i].name = set_info.name
    /\ list[i].column_list = populate_columns(set_info.facts)

HoldsDimensionSet(list, i, set_info) ==
    /\ list[i].kind = "dimension"
    /\ list[i].name = set_info.name
    /\ list[i].column_list = populate_columns(set_info.attributes)

\* C17: after any sequence of refresh() and refresh_set_list() calls the
\* set-list holds exactly one set per result_sets entry followed by one set
\* per dimension_sets entry of the latest metadata, in metadata order, none
\* left over or duplicated from an earlier load
C17_SetListIsLatestMetadata ==
    /\ Len(db.set_list) = Len(db.info.result_sets) + Len(db.info.dimension_sets)
    /\ \A i \in 1..Len(db.info.result_sets) :
          HoldsResultSet(db.set_list, i, db.info.result_sets[i])
    /\ \A i \in 1..Len(db.info.dimension_sets) :
          HoldsDimensionSet(db.set_list, Len(db.info.result_sets) + i,
                            db.info.dimension_sets[i])

\* C18: every result set's list of linked dimension sets holds, in
\* declaration order and once each, the set found by name for every
\* dimension-set name it declares, also for dimension sets that come later
\* in the set-list; repeating the load does not grow the list
C18_LinkedOncePerDeclaredName ==
    \A i \in 1..Len(db.set_list) :
        db.set_list[i].kind = "result" =>
            /\ Len(db.set_list[i].dimension_sets)
                 = Len(db.set_list[i].dimension_set_names)
            /\ \A d \in 1..Len(db.set_list[i].dimension_set_names) :
                  db.set_list[i].dimension_sets[d]
                    = find_set_by_name(db.set_list,
                                       db.set_list[i].dimension_set_names[d])

\* "<set>.<ci> AS <set>_<ci>", with "(<set>$last.<ci>)" on the left for the
\* latest form
Projection(set_name, column, latest) ==
    (IF latest THEN <<"(">> \o set_name \o <<"$last.">> \o column \o <<")">>
     ELSE set_name \o <<".">> \o column)
    \o <<" AS ">> \o set_name \o <<"_">> \o column

\* the projections of the columns [c1..cn] of one set, in declaration order
ColumnProjections(iq_set, latest) ==
    [c \in 1..Len(iq_set.column_list) |->
        Projection(iq_set.name, iq_set.column_list[c], latest)]

\* C19: for any set with columns [c1..cn], get_columns_info(latest=False)
\* yields the n projections "<set>.<ci> AS <set>_<ci>" in declaration order,
\* and latest=True on a result set changes only their left-hand side to
\* "(<set>$last.<ci>)"
C19_OneProjectionPerColumn ==
    (/\ last_call.op = "get_columns_info"
     /\ last_call.args # NoArgs
     /\ (last_call.args.value => db.set_list[last_call.iq_set].kind = "result"))
    => /\ ~result.raised
       /\ result.value.projections
            = ColumnProjections(db.set_list[last_call.iq_set], last_call.args.value)

\* the sequence s ends with the sequence t
EndsWith(s, t) ==
    /\ Len(t) <= Len(s)
    /\ SubSeq(s, Len(s) - Len(t) + 1, Len(s)) = t

\* the projections of the dimension sets a result set declares, set by set
\* in declaration order, always in the non-latest form
DeclaredDimensionProjections(set_list, iq_set) ==
    Concat([d \in 1..Len(iq_set.dimension_set_names) |->
        ColumnProjections(set_list[find_set_by_name(set_list,
                                  iq_set.dimension_set_names[d])], FALSE)])

\* C20: IqResultSet.get_columns_info(latest) returns projections and aliases
\* of equal length, the i-th projection ending with " AS " and the i-th
\* alias: the result set's own columns in declaration order (latest form
\* when latest), then the columns of each linked dimension set in
\* dimension-set declaration order in the non-latest form
C20_OwnThenDimensionColumns ==
    (/\ last_call.op = "get_columns_info"
     /\ db.set_list[last_call.iq_set].kind = "result")
    => /\ ~result.raised
       /\ Len(result.value.projections) = Len(result.value.column_alias_list)
       /\ \A i \in 1..Len(result.value.projections) :
             EndsWith(result.value.projections[i],
                      <<" AS ">> \o result.value.column_alias_list[i])
       /\ result.value.projections
            = ColumnProjections(db.set_list[last_call.iq_set],
                            last_call.args # NoArgs /\ last_call.args.value)
              \o DeclaredDimensionProjections(db.set_list,
                                              db.set_list[last_call.iq_set])

---------------------------------------------------------------------------
(* One query object, of either class, bound to the database db1 of a       *)
(* client: its lists, its time range, get_query and execute.               *)

\* the group and order expressions a caller adds
UserGroups == { <<"g">> }
UserOrders == { <<"o">> }

\* the client the query's database belongs to: its STC session writes d1,
\* the query's database is db1
BuilderClient == SpirentTestCenterIQ([ type |-> "stc", ResultDbId |-> DatabaseId(1) ], <<>>)

InitBuilder ==
    /\ query \in { IqSingleQuery(db_set_list, <<"tx">>, None),
                   IqMultiQuery(db_set_list, << <<"tx">>, <<"rx">> >>, <<"m">>,
                                { <<"s", "_", "id">> }) }
    /\ last_call = NoCall
    /\ result = NoResult
    /\ request = None
    /\ result_file = None
    /\ iq = BuilderClient
    /\ db = None

\* IqQuery.add_group(group)
add_group ==
    /\ Len(query.groups) < MaxGroups
    /\ \E group \in UserGroups :
          /\ query' = [query EXCEPT !.groups = Append(@, group)]
          /\ last_call' = [op |-> "add_group", group |-> group]
    /\ result' = NoResult
    /\ request' = None
    /\ UNCHANGED <<result_file, iq, db>>

\* IqQuery.delete_groups()
delete_groups ==
    /\ query' = [query EXCEPT !.groups = <<>>]
    /\ last_call' = [op |-> "delete_groups"]
    /\ result' = NoResult
    /\ request' = None
    /\ UNCHANGED <<result_file, iq, db>>

\* IqQuery.add_order(order): self.orders.append(group) names a variable the
\* method does not have, and no global group exists: NameError, nothing is
\* appended
add_order ==
    /\ \E order \in UserOrders :
          last_call' = [op |-> "add_order", order |-> order]
    /\ result' = [raised |-> TRUE, error |-> "NameError", value |-> None]
    /\ request' = None
    /\ UNCHANGED <<query, result_file, iq, db>>

\* IqQuery.delete_orders()
delete_orders ==
    /\ query' = [query EXCEPT !.orders = <<>>]
    /\ last_call' = [op |-> "delete_orders"]
    /\ result' = NoResult
    /\ request' = None
    /\ UNCHANGED <<result_file, iq, db>>

\* query.get_query(latest), IqSingleQuery's or IqMultiQuery's
call_get_query ==
    /\ Len(query.filters) <= MaxFilters
    /\ \E latest \in BOOLEAN :
          \E r \in {get_query_of(db_set_list, query, latest)} :
              /\ query' = r.self
              /\ last_call' = [op |-> "get_query", latest |-> latest]
              /\ result' = [raised |-> r.raised, error |-> r.error, value |-> r.query]
    /\ request' = None
    /\ UNCHANGED <<result_file, iq, db>>

\* IqSingleQuery.execute / IqMultiQuery.execute: the definition posted
ExecuteDefinition(self, built) ==
    IF self.kind = "single" THEN [ single_result |-> built ]
    ELSE [ multi_result |-> built ]

\* a mutant of ExecuteRequest: no db_id is passed to execute_query
ExecuteRequest_NoDbId(client, self, built) ==
    execute_query_request(client, ExecuteDefinition(self, built), <<"once">>, None)

\* self.db.iq.execute_query(query, db_id=self.db.id): the request sent
ExecuteRequest(client, self, built) ==
    execute_query_request(client, ExecuteDefinition(self, built), <<"once">>,
                          db_info.id)

\* "if not custom_query": None and the empty dict are taken as no
\* custom_query
Given(custom_query) ==
    custom_query.type = "dict" /\ DOMAIN custom_query.value # {}

\* the arguments of execute: an IqSingleQuery takes latest only;
\* custom_query is omitted, empty or a query of the caller's
BuilderExecuteArgs(self) ==
    { [latest |-> l, custom_query |-> c] :
        l \in BOOLEAN,
        c \in IF self.kind = "single" THEN { PyNone }
              ELSE { PyNone, PyDict(EmptyDict),
                     PyDict([alias |-> <<"custom">>]) } }

\* query.execute(latest) / query.execute(latest, custom_query): the built
\* query (or the caller's) is wrapped and posted for the bound database;
\* what __execute makes of the service's response is returned.  posted tells
\* whether a request was sent, built is the query get_query returned.
call_execute ==
    /\ Len(query.filters) <= MaxFilters
    /\ \E args \in BuilderExecuteArgs(query),
          response \in { HttpOk("dict", b) : b \in Responses } \cup ErrorResponses :
          \E r \in {IF Given(args.custom_query)
                      THEN Returned(query, args.custom_query.value)
                      ELSE get_query_of(db_set_list, query, args.latest)} :
              /\ query' = r.self
              /\ IF r.raised
                 THEN /\ last_call' = [op |-> "execute", latest |-> args.latest,
                                       custom_query |-> args.custom_query,
                                       posted |-> FALSE]
                      /\ result' = [raised |-> TRUE, error |-> r.error, value |-> None]
                      /\ request' = None
                 ELSE /\ last_call' = [op |-> "execute", latest |-> args.latest,
                                       custom_query |-> args.custom_query,
                                       posted |-> TRUE, built |-> r.query,
                                       response |-> response]
                      /\ request' = ExecuteRequest(iq, query, r.query)
                      /\ \E o \in { __execute(response) } :
                            result' = [raised |-> o.raised, error |-> o.error,
                                       value |-> o.value]
    /\ UNCHANGED <<result_file, iq, db>>

NextBuilder ==
    \/ add_filter
    \/ delete_filters
    \/ add_group
    \/ delete_groups
    \/ add_order
    \/ delete_orders
    \/ add_timestamp_range_relative
    \/ call_get_query
    \/ call_execute

SpecBuilder == InitBuilder /\ [][NextBuilder]_vars

\* the time range of the query and what get_query builds from it
NextRange ==
    \/ add_timestamp_range
    \/ add_timestamp_range_absolute
    \/ add_timestamp_range_relative
    \/ call_get_query

SpecRange == InitBuilder /\ [][NextRange]_vars

\* the fields every built query object carries
QueryFields ==
    { "alias", "filters", "groups", "orders", "timestamp_range", "limit",
      "pagination", "projections" }

\* C21: every query object built by get_query, a SingleQuery's and a
\* MultiQuery's alike, carries alias, filters, groups, orders,
\* timestamp_range, limit, pagination and projections, a MultiQuery's
\* carries subqueries in addition, and the time range set on the query is
\* the timestamp_range of the built query
C21_BuiltQueryFields ==
    (last_call.op = "get_query" /\ ~result.raised)
    => /\ QueryFields \subseteq DOMAIN result.value
       /\ query.kind = "multi" => "subqueries" \in DOMAIN result.value
       /\ result.value.timestamp_range = query.timestamp_range

\* the lists and the time range a call on one list leaves alone
Frame(q) ==
    [ filters |-> q.filters, groups |-> q.groups, orders |-> q.orders,
      timestamp_range |-> q.timestamp_range ]

\* C24: add_filter, add_group and add_order each append the expression
\* given to the end of their own list and leave the other two lists and the
\* time range unchanged; delete_filters, delete_groups and delete_orders
\* each empty only their own list
C24_ListsAppendAndDelete ==
    [][ /\ last_call'.op = "add_filter" =>
             /\ ~result'.raised
             /\ Frame(query') = [ Frame(query) EXCEPT
                                    !.filters = Append(@, last_call'.filter) ]
        /\ last_call'.op = "add_group" =>
             /\ ~result'.raised
             /\ Frame(query') = [ Frame(query) EXCEPT
                                    !.groups = Append(@, last_call'.group) ]
        /\ last_call'.op = "add_order" =>
             /\ ~result'.raised
             /\ Frame(query') = [ Frame(query) EXCEPT
                                    !.orders = Append(@, last_call'.order) ]
        /\ last_call'.op = "delete_filters" =>
             Frame(query') = [ Frame(query) EXCEPT !.filters = <<>> ]
        /\ last_call'.op = "delete_groups" =>
             Frame(query') = [ Frame(query) EXCEPT !.groups = <<>> ]
        /\ last_call'.op = "delete_orders" =>
             Frame(query') = [ Frame(query) EXCEPT !.orders = <<>> ]
      ]_vars

\* the query get_query builds for the query as it was before the call
BuiltBefore(self, latest) == get_query_of(db_set_list, self, latest).query

\* C22: IqSingleQuery.execute posts {single_result: <built query>} and
\* IqMultiQuery.execute posts {multi_result: <built query>}, or the caller's
\* custom_query in place of the built one, to the queries endpoint with mode
\* "once" and the id of the database the query is bound to, and returns the
\* service's response body unchanged
C22_ExecutePostsWrappedQuery ==
    [][ (last_call'.op = "execute" /\ last_call'.posted)
        => /\ request'.method = "post"
           /\ request'.url = BaseUrl \o <<"/">> \o <<"queries">>
           /\ DOMAIN request'.json = {"database", "mode", "definition"}
           /\ request'.json.mode = <<"once">>
           /\ request'.json.database = [ id |-> db_info.id ]
           /\ DOMAIN request'.json.definition
                = { IF query.kind = "single" THEN "single_result"
                    ELSE "multi_result" }
           /\ \A wrapper \in DOMAIN request'.json.definition :
                 request'.json.definition[wrapper]
                   = IF Given(last_call'.custom_query)
                     THEN last_call'.custom_query.value
                     ELSE BuiltBefore(query, last_call'.latest)
           /\ last_call'.response.status_code = 200 => ~result'.raised
           /\ ~result'.raised => result'.value = last_call'.response.body
      ]_vars

\* C22's case: a multi-query executed without a custom_query of the
\* caller's, the built query posted as multi_result and the answer returned
C22_Witness ==
    /\ last_call.op = "execute"
    /\ last_call.posted
    /\ query.kind = "multi"
    /\ last_call.latest
    /\ ~Given(last_call.custom_query)
    /\ DOMAIN request.json.definition = {"multi_result"}
    /\ Len(request.json.definition.multi_result.subqueries) = 2
    /\ last_call.response.status_code = 200
    /\ ~result.raised
    /\ result.value = last_call.response.body

---------------------------------------------------------------------------
(* The join filters of IqMultiQuery.get_query (specification Spec).        *)

\* C25: every join filter "<refA>=<refB>" that get_query emits for a key
\* column has its two references taken from two different sub-queries; a
\* key column whose alias occurs twice in the column list of one sub-query
\* is never joined with itself
C25_JoinsTwoSubqueries ==
    Built =>
        \A i \in 1..Len(BuiltQuery.filters) :
            \/ BuiltQuery.filters[i] \in UserFilters
            \/ \E k \in query.keys : BuiltQuery.filters[i] \in JoinsOf(k)

---------------------------------------------------------------------------
(* The column descriptions of a set (specification SpecSchema).            *)

\* the attribute each getter reads
GetterAttribute ==
    [ op \in { "get_column_type", "get_column_unit", "get_column_display_name",
               "get_column_description" } |->
        IF op = "get_column_type" THEN "type"
        ELSE IF op = "get_column_unit" THEN "unit"
        ELSE IF op = "get_column_display_name" THEN "display_name"
        ELSE "description" ]

\* the column-not-found error of a getter asked for column_name
NotFound(column_name, outcome) ==
    /\ outcome.raised
    /\ outcome.error = "Exception"
    /\ outcome.message = <<"The column '">> \o column_name \o <<"' was not found.">>

\* the getter returned the attribute stored with column_name
ReturnsStored(iq_set, column_name, attribute, outcome) ==
    /\ ~outcome.raised
    /\ attribute \in DOMAIN iq_set.column_info[column_name]
    /\ outcome.value = iq_set.column_info[column_name][attribute]

\* a getter called on iq_set for column_name: column-not-found for a name
\* absent from the column map, the stored attribute for every other name
LooksUp(iq_set, column_name, attribute, outcome) ==
    IF column_name \notin DOMAIN iq_set.column_info
    THEN NotFound(column_name, outcome)
    ELSE ReturnsStored(iq_set, column_name, attribute, outcome)

\* the same, but for a name of the column map whose description stores no
\* such attribute the getter raises KeyError
LooksUpStored(iq_set, column_name, attribute, outcome) ==
    IF column_name \notin DOMAIN iq_set.column_info
    THEN NotFound(column_name, outcome)
    ELSE IF attribute \in DOMAIN iq_set.column_info[column_name]
    THEN ReturnsStored(iq_set, column_name, attribute, outcome)
    ELSE outcome.raised /\ outcome.error = "KeyError"

\* C23: get_column_type, get_column_unit, get_column_display_name and
\* get_column_description each fail with the column-not-found error when
\* the name is absent from the set's column map and otherwise return the
\* stored attribute of that column; the set's column list and column map
\* are unchanged in both cases
C23_ColumnLookup ==
    [][ last_call'.op \in DOMAIN GetterAttribute
        => /\ db' = db
           /\ LooksUp(db.set_list[last_call'.iq_set], last_call'.column_name,
                      GetterAttribute[last_call'.op], result') ]_vars

\* C23 as the getters behave: column-not-found when the name is absent from
\* the set's column map; otherwise the stored attribute of that column when
\* its description stores one, and KeyError when it stores none; the set's
\* column list and column map are unchanged in all three cases
C23_ColumnLookupOrKeyError ==
    [][ last_call'.op \in DOMAIN GetterAttribute
        => /\ db' = db
           /\ LooksUpStored(db.set_list[last_call'.iq_set], last_call'.column_name,
                            GetterAttribute[last_call'.op], result') ]_vars

\* C23's case: get_column_unit asked a set for a column of its column map
\* whose description stores a type and no unit (an attribute of a
\* dimension set), and raised KeyError
C23_Witness ==
    /\ last_call.op = "get_column_unit"
    /\ last_call.column_name \in DOMAIN db.set_list[last_call.iq_set].column_info
    /\ "type" \in DOMAIN db.set_list[last_call.iq_set].column_info[last_call.column_name]
    /\ "unit" \notin DOMAIN db.set_list[last_call.iq_set].column_info[last_call.column_name]
    /\ result.raised
    /\ result.error = "KeyError"

---------------------------------------------------------------------------
(* The current database of a client across set_current_db and              *)
(* refresh_database_list.  A handle is known by its fields: the handles a   *)
(* refresh builds for unchanged entries are taken for the handles they     *)
(* replace.                                                                *)

NextCurrent ==
    \/ call_set_current_db
    \/ call_refresh_database_list
    \/ answer_get_all_db_info
    \/ answer_get_db_info

SpecCurrent == InitClient /\ [][NextCurrent]_vars

\* C26: after any sequence of set_current_db and refresh_database_list
\* calls the current database is None or one of the handles presently in
\* db_list; a refresh never leaves it pointing at a handle that is no
\* longer in the list
C26_CurrentDbInList ==
    \/ iq.current_db = PyNone
    \/ \E i \in 1..Len(iq.db_list) : iq.db_list[i] = iq.current_db

=============================================================================
